---- MODULE Spec2Model ----
(***************************************************************************)
(* The chat client of rag-simple (apps/frontend): the conversation store,  *)
(* the per-conversation stream sessions and the send / stop handlers of    *)
(* components/chat/chat-app.tsx, with the composer's two ways of sending   *)
(* (components/chat/composer.tsx) and the event stream of lib/api.ts.      *)
(*                                                                         *)
(* Granularity: one action is one run of the event loop between two        *)
(* suspension points of a handler (an await, or one event of the           *)
(* for-await loop).  A backend call is answered in the step that resumes   *)
(* the handler; its outcome (success, failure) is chosen with \E.          *)
(* Text is a sequence of characters, so that trim() and concatenation are  *)
(* computed.  A time stamp is a number (new Date() is later than every     *)
(* stamp in the store).  useDocs and the attachment list of a conversation *)
(* are left out: no handler modelled here reads them.                      *)
(***************************************************************************)
EXTENDS Integers, Sequences, FiniteSets, TLC

\* ------------------------------------------------------------- bounds
MaxSends == 2      \* send actions in one run
MaxEvents == 2     \* events the streams deliver in one run
MaxRequests == 2   \* sidebar requests (delete, rename, pin) in one run
MaxUpdates == 3    \* updateConversation calls in one run
MaxBlocks == 2     \* complete blocks of an event stream
MaxBlockLines == 2 \* lines of one block of an event stream
MaxSortLen == 4    \* conversations in a list that is sorted
MaxStamp == 2      \* time stamps of the conversations that are sorted
MaxOrder == 3      \* pinnedOrder values of the conversations that are sorted

\* ------------------------------------------------------------- inputs
ConvIds == {"A", "B"}
Titles == { <<"X">>, <<" ", "Y">>, <<" ">> }   \* titles the user types
PinnedIds == {"P1", "P2", "P3", "P4"}   \* conversations that stay pinned
NewConversationIds == <<"C">>   \* ids the backend gives to new conversations
AllConvIds == ConvIds \cup PinnedIds
                \cup {NewConversationIds[i] : i \in 1..1}
UserTexts == { <<"q">>, <<" ", "q", " ">>, <<" ">> }
Deltas == { <<"x">>, <<" ">> }
Warnings == { <<>>, <<"careful">> }
NoId == "none"
NoToast == "none"

\* ------------------------------------------------------------- helpers
Absent == <<>>
Some(v) == <<v>>
OrElse(opt, dflt) == IF opt = Absent THEN dflt ELSE opt[1]

Has(f, k) == k \in DOMAIN f
Put(f, k, v) == [x \in (DOMAIN f) \cup {k} |-> IF x = k THEN v ELSE f[x]]
Remove(f, k) == [x \in (DOMAIN f) \ {k} |-> f[x]]
EmptyMap == [x \in {} |-> x]

IsSpace(ch) == ch = " "

RECURSIVE TrimStart(_)
TrimStart(s) ==
  IF s # <<>> /\ IsSpace(Head(s)) THEN TrimStart(Tail(s)) ELSE s

RECURSIVE TrimEnd(_)
TrimEnd(s) ==
  IF s # <<>> /\ IsSpace(s[Len(s)])
    THEN TrimEnd(SubSeq(s, 1, Len(s) - 1))
    ELSE s

trim(s) == TrimEnd(TrimStart(s))

\* ------------------------------------------------------------- messages
TmpId == <<"tmp">>
ServerId(n) == <<"m", n>>

\* a placeholder that is not a user message
optimisticUserMessage_assistant(trimmed) ==
  [id |-> TmpId, role |-> "assistant", content |-> trimmed,
   isStreaming |-> FALSE,
   citations |-> Absent, evidence |-> Absent, meta |-> Absent,
   warning |-> Absent]

optimisticUserMessage(trimmed) ==
  [id |-> TmpId, role |-> "user", content |-> trimmed, isStreaming |-> FALSE,
   citations |-> Absent, evidence |-> Absent, meta |-> Absent,
   warning |-> Absent]

partialAssistantMessage_stillStreaming(partial) ==
  [id |-> TmpId, role |-> "assistant", content |-> partial,
   isStreaming |-> TRUE,
   citations |-> Absent, evidence |-> Absent, meta |-> Absent,
   warning |-> Absent]

partialAssistantMessage(partial) ==
  [id |-> TmpId, role |-> "assistant", content |-> partial,
   isStreaming |-> FALSE,
   citations |-> Absent, evidence |-> Absent, meta |-> Absent,
   warning |-> Absent]

normalizeMessage_noCitations(payload) ==
  [id |-> payload.id, role |-> payload.role, content |-> payload.content,
   isStreaming |-> FALSE,
   citations |-> Some(<<>>),
   evidence |-> Some(OrElse(payload.evidence, <<>>)),
   meta |-> Some(OrElse(payload.meta, "{}")),
   warning |-> payload.warning]

normalizeMessage(payload) ==
  [id |-> payload.id, role |-> payload.role, content |-> payload.content,
   isStreaming |-> FALSE,
   citations |-> Some(OrElse(payload.citations, <<>>)),
   evidence |-> Some(OrElse(payload.evidence, <<>>)),
   meta |-> Some(OrElse(payload.meta, "{}")),
   warning |-> payload.warning]

normalizeMessages(list) == [i \in DOMAIN list |-> normalizeMessage(list[i])]

normalizeConversation(payload, current) ==
  [id |-> payload.id,
   title |-> payload.title,
   createdAt |-> payload.createdAt,
   lastUpdatedAt |-> payload.lastUpdatedAt,
   isPinned |-> payload.isPinned,
   pinnedAt |-> payload.pinnedAt,
   pinnedOrder |-> payload.pinnedOrder,
   messages |-> IF current = Absent THEN <<>> ELSE current[1].messages]

\* ------------------------------------------------------------- backend
\* A conversation as the backend lists it (spec, External interfaces); a
\* pinned one carries the time it was pinned.
BackendConversation(id, isPinned, pinnedOrder, stamp) ==
  [id |-> id, title |-> <<"t">>, createdAt |-> stamp, lastUpdatedAt |-> stamp,
   isPinned |-> isPinned,
   pinnedAt |-> IF isPinned THEN Some(stamp) ELSE Absent,
   pinnedOrder |-> pinnedOrder]

\* GET /conversations, most recent first
ServerConversations ==
  << BackendConversation("A", FALSE, Absent, 2),
     BackendConversation("B", FALSE, Absent, 1) >>

\* What the backend stores for one exchange (spec, External interfaces).
BackendUserMessage(n, text) ==
  [id |-> ServerId(n), role |-> "user", content |-> text,
   citations |-> Absent, evidence |-> Absent, meta |-> Absent,
   warning |-> Absent]

BackendReply(n) ==
  [id |-> ServerId(n), role |-> "assistant", content |-> <<"r">>,
   citations |-> Some(<<"p1">>), evidence |-> Absent,
   meta |-> Some("rag"), warning |-> Absent]

\* ------------------------------------------------------------- state
VARIABLES
  conversations,            \* Conversation[] (list order kept)
  activeId,                 \* string | null
  streamingByConversation,  \* Record<string, {content}>
  abortControllers,         \* abortControllersRef: conversation -> controller
  abortRequested,           \* abortRequestedRef: conversation -> boolean
  toastMessage,             \* string | null
  initialLoadFailed,
  streamingEnabled,         \* NEXT_PUBLIC_STREAMING_ENABLED !== "false"
  mounted,                  \* the initial load effect has run
  detailLoads,              \* conversations whose detail load is in flight
  sends,                    \* one record per handleSendMessage call
  server,                   \* backend: conversation -> stored messages
  delivered,                \* events the streams have delivered
  backendConversations,     \* backend: the conversations it lists
  requests,                 \* sidebar handlers waiting for the backend
  calc                      \* argument and result of a function applied

vars == <<conversations, activeId, streamingByConversation, abortControllers,
          abortRequested, toastMessage, initialLoadFailed, streamingEnabled,
          mounted, detailLoads, sends, server, delivered,
          backendConversations, requests, calc>>

storeVars == <<conversations, activeId>>
sessionVars == <<streamingByConversation, abortControllers, abortRequested>>
sidebarVars == <<backendConversations, requests, calc>>

\* ------------------------------------------------------------- store
ConvIndex(list, id) == {i \in DOMAIN list : list[i].id = id}
HasConversation(id) == ConvIndex(conversations, id) # {}
FindConversation(id) ==
  conversations[CHOOSE i \in ConvIndex(conversations, id) : TRUE]
MessagesOf(id) == IF HasConversation(id) THEN FindConversation(id).messages
                  ELSE <<>>

activeConversation ==
  IF activeId # NoId /\ HasConversation(activeId)
    THEN Some(FindConversation(activeId))
    ELSE Absent

isStreaming ==
  activeConversation # Absent /\ Has(streamingByConversation, activeId)

\* updateConversation with the updaters the handlers pass to it
SetMessages(list, id, msgs) ==
  [i \in DOMAIN list |->
     IF list[i].id = id THEN [list[i] EXCEPT !.messages = msgs] ELSE list[i]]

\* an updater that is not keyed by the conversation id
AppendMessage_everyConversation(list, id, msg) ==
  [i \in DOMAIN list |-> [list[i] EXCEPT !.messages = Append(@, msg)]]

AppendMessage(list, id, msg) ==
  [i \in DOMAIN list |->
     IF list[i].id = id
       THEN [list[i] EXCEPT !.messages = Append(@, msg)]
       ELSE list[i]]

SetLastUpdatedAt(list, id, stamp) ==
  [i \in DOMAIN list |->
     IF list[i].id = id THEN [list[i] EXCEPT !.lastUpdatedAt = stamp]
     ELSE list[i]]

\* timestamp(value): Date.parse, 0 for null
timestamp(value) == OrElse(value, 0)

Max(S) == CHOOSE x \in S : \A y \in S : y <= x

\* new Date(): later than every stamp the store holds
Now(list) ==
  1 + Max({0} \cup {list[i].createdAt : i \in DOMAIN list}
              \cup {list[i].lastUpdatedAt : i \in DOMAIN list}
              \cup {timestamp(list[i].pinnedAt) : i \in DOMAIN list})

\* toastMessage is the notice the last step showed: the 2200 ms timer that
\* clears a notice is taken to have fired before the next step.
showToast(message) == toastMessage' = message
noToast == toastMessage' = NoToast

Init ==
  /\ conversations = <<>>
  /\ activeId = NoId
  /\ streamingByConversation = EmptyMap
  /\ abortControllers = EmptyMap
  /\ abortRequested = EmptyMap
  /\ toastMessage = NoToast
  /\ initialLoadFailed = FALSE
  /\ streamingEnabled \in BOOLEAN
  /\ mounted = FALSE
  /\ detailLoads = {}
  /\ sends = <<>>
  /\ server = [c \in AllConvIds |-> <<>>]
  /\ delivered = 0
  /\ backendConversations = ServerConversations
  /\ requests = <<>>
  /\ calc = <<>>

\* ------------------------------------------------------------- loading
syncConversations(payload) ==
  /\ conversations' =
       [i \in DOMAIN payload |->
          normalizeConversation(payload[i],
            IF HasConversation(payload[i].id)
              THEN Some(FindConversation(payload[i].id)) ELSE Absent)]
  /\ IF activeId = NoId /\ Len(payload) > 0
       THEN /\ activeId' = payload[1].id
            /\ detailLoads' = detailLoads \cup {payload[1].id}
       ELSE UNCHANGED <<activeId, detailLoads>>

\* the mount effect: refreshConversations, then the outcome flag
InitialLoad ==
  /\ ~mounted
  /\ mounted' = TRUE
  /\ \/ /\ syncConversations(backendConversations)
        /\ initialLoadFailed' = FALSE
        /\ noToast
     \/ /\ showToast("Backend unreachable. Check NEXT_PUBLIC_API_BASE_URL.")
        /\ initialLoadFailed' = TRUE
        /\ UNCHANGED <<conversations, activeId, detailLoads>>
  /\ UNCHANGED <<sessionVars, streamingEnabled, sends, server>>
  /\ UNCHANGED <<delivered, sidebarVars>>

handleRetryLoad ==
  /\ mounted
  /\ initialLoadFailed
  /\ activeConversation = Absent
  /\ \/ /\ syncConversations(backendConversations)
        /\ initialLoadFailed' = FALSE
        /\ noToast
     \/ /\ showToast("Backend unreachable. Check NEXT_PUBLIC_API_BASE_URL.")
        /\ initialLoadFailed' = TRUE
        /\ UNCHANGED <<conversations, activeId, detailLoads>>
  /\ UNCHANGED <<sessionVars, streamingEnabled, mounted, sends, server>>
  /\ UNCHANGED <<delivered, sidebarVars>>

handleSelectConversation(id) ==
  /\ HasConversation(id)
  /\ id # activeId
  /\ activeId' = id
  /\ detailLoads' = detailLoads \cup {id}
  /\ noToast /\ UNCHANGED <<conversations, sessionVars, initialLoadFailed,
                 streamingEnabled, mounted, sends, server>>
  /\ UNCHANGED <<delivered, sidebarVars>>

\* loadMessages(conversationId): GET messages, replace the list
loadMessages(conversationId) ==
  conversations' =
    SetMessages(conversations, conversationId,
                normalizeMessages(server[conversationId]))

\* the effect on activeId: load the details of the conversation selected
LoadDetails(id) ==
  /\ id \in detailLoads
  /\ detailLoads' = detailLoads \ {id}
  /\ \/ /\ loadMessages(id)
        /\ noToast
     \/ /\ IF activeId = id
             THEN showToast("Unable to load conversation details.")
             ELSE noToast
        /\ UNCHANGED conversations
  /\ UNCHANGED <<activeId, sessionVars, initialLoadFailed, streamingEnabled,
                 mounted, sends, server>>
  /\ UNCHANGED <<delivered, sidebarVars>>

\* ------------------------------------------------------------- send
NewSend(conversationId, trimmed, previousMessageCount, pc) ==
  [conv |-> conversationId, text |-> trimmed,
   previousMessageCount |-> previousMessageCount, pc |-> pc,
   hadStreamError |-> FALSE, finalReceived |-> FALSE, wasAborted |-> FALSE,
   recorded |-> 0,          \* backend: 0 nothing, 1 user text, 2 and reply
   replyAt |-> 0,           \* backend: position of the reply of this send
   serverAtStart |-> Len(server[conversationId]),
   stopSeen |-> FALSE,      \* history: stop was requested in the loop,
                            \*          before any final
   got |-> <<>>]            \* history: deltas received in the loop so far

handleSendMessage(content) ==
  /\ Len(sends) < MaxSends
  /\ activeConversation # Absent
  /\ trim(content) # <<>>
  /\ LET conversationId == activeConversation[1].id
         trimmed == trim(content)
         previousMessageCount == Len(activeConversation[1].messages)
         t == Len(sends) + 1
     IN /\ conversations' =
             SetLastUpdatedAt(
               AppendMessage(conversations, conversationId,
                             optimisticUserMessage(trimmed)),
               conversationId, Now(conversations))
        /\ streamingByConversation' =
             Put(streamingByConversation, conversationId, [content |-> <<>>])
        /\ IF ~streamingEnabled
             THEN /\ sends' = Append(sends,
                       NewSend(conversationId, trimmed,
                               previousMessageCount, "post"))
                  /\ UNCHANGED <<abortControllers, abortRequested>>
             ELSE /\ abortRequested' = Put(abortRequested, conversationId, FALSE)
                  /\ abortControllers' = Put(abortControllers, conversationId, t)
                  /\ sends' = Append(sends,
                       NewSend(conversationId, trimmed,
                               previousMessageCount, "streaming"))
  /\ noToast /\ UNCHANGED <<activeId, initialLoadFailed, streamingEnabled,
                 mounted, detailLoads, server>>
  /\ UNCHANGED <<delivered, sidebarVars>>

\* Composer: the Send button is disabled while isStreaming
ClickSend(value) ==
  /\ ~isStreaming
  /\ handleSendMessage(value)

\* Composer: Enter in the textarea calls handleSend whatever isStreaming is
PressEnter(value) ==
  /\ handleSendMessage(value)

\* ------------------------------------------------------------- stream
\* The locals of a handler that has returned are gone; whether it received a
\* final is kept as history.
Settle(send) ==
  IF send.pc \in {"done", "rejected"}
    THEN [NewSend(send.conv, <<>>, 0, send.pc) EXCEPT
            !.serverAtStart = 0, !.finalReceived = send.finalReceived]
    ELSE send

SetPc(t, pc) == sends' = [sends EXCEPT ![t] = Settle([@ EXCEPT !.pc = pc])]

InLoop(t) == t \in DOMAIN sends /\ sends[t].pc = "streaming"

Delivers(t) ==
  /\ InLoop(t)
  /\ delivered < MaxEvents

\* abortRequestedRef.current[conversationId] is truthy
AbortFlag(conversationId) ==
  Has(abortRequested, conversationId) /\ abortRequested[conversationId]

\* What the backend stores while it serves the stream request of send t.
BackendRecords(t) ==
  /\ InLoop(t)
  /\ sends[t].recorded < 2
  /\ LET c == sends[t].conv
         n == Len(server[c]) + 1
     IN IF sends[t].recorded = 0
          THEN /\ server' = [server EXCEPT
                    ![c] = Append(@, BackendUserMessage(n, sends[t].text))]
               /\ sends' = [sends EXCEPT ![t].recorded = 1]
          ELSE /\ server' = [server EXCEPT ![c] = Append(@, BackendReply(n))]
               /\ sends' = [sends EXCEPT ![t].recorded = 2, ![t].replyAt = n]
  /\ noToast /\ UNCHANGED <<conversations, activeId, sessionVars, initialLoadFailed, streamingEnabled, mounted, detailLoads>>
  /\ UNCHANGED <<delivered, sidebarVars>>

\* The code after the for-await loop: the session entry goes unless a final
\* was received, the controller and the flag of the conversation go, and the
\* handler returns (cancelled), recovers (error) or reloads.
AfterLoop(t, sessions, hadStreamError, wasAborted) ==
  LET c == sends[t].conv
      pc == IF wasAborted THEN "done"
            ELSE IF hadStreamError THEN "recover"
            ELSE "reload"
  IN /\ streamingByConversation' =
          IF ~sends[t].finalReceived THEN Remove(sessions, c) ELSE sessions
     /\ abortControllers' = Remove(abortControllers, c)
     /\ abortRequested' = Remove(abortRequested, c)
     /\ sends' = [sends EXCEPT ![t] =
          Settle([@ EXCEPT !.hadStreamError = hadStreamError,
                           !.wasAborted = wasAborted,
                           !.pc = pc,
                           \* kept as history while the handler recovers
                           !.recorded = IF hadStreamError /\ ~wasAborted
                                          THEN @ ELSE 0,
                           !.got = <<>>])]

\* the loop body's first statement: stop was requested, leave the loop
BreakOnAbortFlag(t) ==
  /\ AfterLoop(t, streamingByConversation, sends[t].hadStreamError, TRUE)
  /\ noToast /\ UNCHANGED <<conversations>>

\* the catch block, for an error that is not an AbortError
CatchStreamFailure(t) ==
  /\ AfterLoop(t, Remove(streamingByConversation, sends[t].conv), TRUE, FALSE)
  /\ showToast("Streaming failed.")
  /\ UNCHANGED conversations

\* a status handler that always resets the content
StreamStatus_resets(t) ==
  /\ Delivers(t)
  /\ LET c == sends[t].conv
     IN IF AbortFlag(c)
          THEN BreakOnAbortFlag(t)
          ELSE /\ streamingByConversation' =
                    Put(streamingByConversation, c, [content |-> <<>>])
               /\ UNCHANGED sends
               /\ noToast /\ UNCHANGED <<conversations, abortControllers,
                              abortRequested>>
  /\ UNCHANGED <<activeId, initialLoadFailed, streamingEnabled, mounted,
                 detailLoads, server>>
  /\ delivered' = delivered + 1
  /\ UNCHANGED sidebarVars

StreamStatus(t) ==
  /\ Delivers(t)
  /\ LET c == sends[t].conv
     IN IF AbortFlag(c)
          THEN BreakOnAbortFlag(t)
          ELSE /\ streamingByConversation' =
                    IF Has(streamingByConversation, c)
                       /\ Len(streamingByConversation[c].content) > 0
                      THEN streamingByConversation
                      ELSE Put(streamingByConversation, c, [content |-> <<>>])
               /\ UNCHANGED sends
               /\ noToast /\ UNCHANGED <<conversations, abortControllers,
                              abortRequested>>
  /\ UNCHANGED <<activeId, initialLoadFailed, streamingEnabled, mounted,
                 detailLoads, server>>
  /\ delivered' = delivered + 1
  /\ UNCHANGED sidebarVars

StreamDelta(t, delta) ==
  /\ Delivers(t)
  /\ LET c == sends[t].conv
         current == IF Has(streamingByConversation, c)
                      THEN streamingByConversation[c]
                      ELSE [content |-> <<>>]
     IN IF AbortFlag(c)
          THEN BreakOnAbortFlag(t)
          ELSE /\ streamingByConversation' =
                    Put(streamingByConversation, c,
                        [content |-> current.content \o delta])
               /\ sends' = [sends EXCEPT ![t].got = @ \o delta]
               /\ noToast /\ UNCHANGED <<conversations, abortControllers,
                              abortRequested>>
  /\ UNCHANGED <<activeId, initialLoadFailed, streamingEnabled, mounted,
                 detailLoads, server>>
  /\ delivered' = delivered + 1
  /\ UNCHANGED sidebarVars

\* message.final carries the reply the backend stored for this send
FinalPayload(t, warning) ==
  [server[sends[t].conv][sends[t].replyAt] EXCEPT !.warning = warning]

StreamFinal(t, warning) ==
  /\ Delivers(t)
  /\ sends[t].recorded = 2
  /\ LET c == sends[t].conv
         finalMessage == normalizeMessage(FinalPayload(t, warning))
     IN IF AbortFlag(c)
          THEN BreakOnAbortFlag(t)
          ELSE /\ conversations' = AppendMessage(conversations, c, finalMessage)
               /\ IF warning # Absent
                    THEN showToast(warning[1])
                    ELSE noToast
               /\ streamingByConversation' = Remove(streamingByConversation, c)
               /\ sends' = [sends EXCEPT ![t].finalReceived = TRUE]
               /\ UNCHANGED <<abortControllers, abortRequested>>
  /\ UNCHANGED <<activeId, initialLoadFailed, streamingEnabled, mounted,
                 detailLoads, server>>
  /\ delivered' = delivered + 1
  /\ UNCHANGED sidebarVars

\* an error event: the loop body throws
StreamErrorEvent(t) ==
  /\ Delivers(t)
  /\ IF AbortFlag(sends[t].conv)
       THEN BreakOnAbortFlag(t)
       ELSE CatchStreamFailure(t)
  /\ UNCHANGED <<activeId, initialLoadFailed, streamingEnabled, mounted,
                 detailLoads, server>>
  /\ delivered' = delivered + 1
  /\ UNCHANGED sidebarVars

\* the request or a read fails (not an abort): streamSSE throws
StreamTransportError(t) ==
  /\ InLoop(t)
  /\ CatchStreamFailure(t)
  /\ UNCHANGED <<activeId, initialLoadFailed, streamingEnabled, mounted,
                 detailLoads, server>>
  /\ UNCHANGED <<delivered, sidebarVars>>

\* the reader reports done: the loop ends normally
StreamEnd(t) ==
  /\ InLoop(t)
  /\ AfterLoop(t, streamingByConversation, sends[t].hadStreamError,
               sends[t].wasAborted)
  /\ noToast /\ UNCHANGED <<conversations, activeId, initialLoadFailed,
                 streamingEnabled, mounted, detailLoads, server>>
  /\ UNCHANGED <<delivered, sidebarVars>>

\* ------------------------------------------------------------- after the loop
At(t, pc) == t \in DOMAIN sends /\ sends[t].pc = pc

\* handleSendMessageNonStreaming answered with success: the backend stores the
\* user text and its reply; a warning in the response is shown
nonStreamingSendOk(t, warning) ==
  LET c == sends[t].conv
      n == Len(server[c]) + 1
  IN /\ server' = [server EXCEPT
          ![c] = @ \o <<BackendUserMessage(n, sends[t].text),
                        BackendReply(n + 1)>>]
     /\ IF warning # Absent
          THEN showToast(warning[1])
          ELSE noToast

\* hadStreamError: reload, then decide on the fallback send
Recover(t) ==
  /\ At(t, "recover")
  /\ LET c == sends[t].conv
         latest == server[c]
     IN \/ /\ conversations' =
                SetMessages(conversations, c, normalizeMessages(latest))
           /\ SetPc(t, IF Len(latest) <= sends[t].previousMessageCount
                           THEN "fallback" ELSE "done")
           /\ noToast
        \/ /\ showToast("Unable to send message.")
           /\ SetPc(t, "done")
           /\ UNCHANGED conversations
  /\ UNCHANGED <<activeId, sessionVars, initialLoadFailed, streamingEnabled,
                 mounted, detailLoads, server>>
  /\ UNCHANGED <<delivered, sidebarVars>>

FallbackSend(t) ==
  /\ At(t, "fallback")
  /\ \/ \E warning \in Warnings :
          /\ nonStreamingSendOk(t, warning)
          /\ SetPc(t, "fallbackReload")
     \/ /\ showToast("Unable to send message.")
        /\ SetPc(t, "done")
        /\ UNCHANGED server
  /\ UNCHANGED <<conversations, activeId, sessionVars, initialLoadFailed,
                 streamingEnabled, mounted, detailLoads>>
  /\ UNCHANGED <<delivered, sidebarVars>>

FallbackReload(t) ==
  /\ At(t, "fallbackReload")
  /\ \/ /\ loadMessages(sends[t].conv)
        /\ noToast
     \/ /\ showToast("Unable to send message.")
        /\ UNCHANGED conversations
  /\ SetPc(t, "done")
  /\ UNCHANGED <<activeId, sessionVars, initialLoadFailed, streamingEnabled,
                 mounted, detailLoads, server>>
  /\ UNCHANGED <<delivered, sidebarVars>>

\* no stream error: await loadMessages(conversationId), outside any try
Reload(t) ==
  /\ At(t, "reload")
  /\ \/ /\ loadMessages(sends[t].conv)
        /\ SetPc(t, "done")
     \/ /\ SetPc(t, "rejected")
        /\ UNCHANGED conversations
  /\ noToast /\ UNCHANGED <<activeId, sessionVars, initialLoadFailed,
                 streamingEnabled, mounted, detailLoads, server>>
  /\ UNCHANGED <<delivered, sidebarVars>>

\* ------------------------------------------------------------- streaming disabled
Post(t) ==
  /\ At(t, "post")
  /\ \/ \E warning \in Warnings :
          /\ nonStreamingSendOk(t, warning)
          /\ SetPc(t, "postReload")
          /\ UNCHANGED streamingByConversation
     \/ /\ showToast("Unable to send message.")
        /\ SetPc(t, "done")
        /\ streamingByConversation' =
             Remove(streamingByConversation, sends[t].conv)
        /\ UNCHANGED server
  /\ UNCHANGED <<conversations, activeId, abortControllers, abortRequested,
                 initialLoadFailed, streamingEnabled, mounted, detailLoads>>
  /\ UNCHANGED <<delivered, sidebarVars>>

\* a finally block that leaves the session entry
PostReload_keepsSession(t) ==
  /\ At(t, "postReload")
  /\ \/ /\ loadMessages(sends[t].conv)
        /\ noToast
     \/ /\ showToast("Unable to send message.")
        /\ UNCHANGED conversations
  /\ SetPc(t, "done")
  /\ UNCHANGED <<activeId, sessionVars, initialLoadFailed,
                 streamingEnabled, mounted, detailLoads, server>>
  /\ UNCHANGED <<delivered, sidebarVars>>

PostReload(t) ==
  /\ At(t, "postReload")
  /\ \/ /\ loadMessages(sends[t].conv)
        /\ noToast
     \/ /\ showToast("Unable to send message.")
        /\ UNCHANGED conversations
  /\ SetPc(t, "done")
  /\ streamingByConversation' = Remove(streamingByConversation, sends[t].conv)
  /\ UNCHANGED <<activeId, abortControllers, abortRequested, initialLoadFailed,
                 streamingEnabled, mounted, detailLoads, server>>
  /\ UNCHANGED <<delivered, sidebarVars>>

\* ------------------------------------------------------------- stop
\* controller.abort() rejects the pending fetch or read of the send that owns
\* the controller with an AbortError; its catch block and the code after the
\* loop run before the next event is handled: the handler returns, cancelled.
CatchAbortError(send) ==
  Settle([send EXCEPT !.wasAborted = TRUE, !.hadStreamError = FALSE,
                      !.pc = "done"])

\* Stop is the transition out of the streaming state: it is requested while
\* the active conversation has a session entry.
handleStopStreaming ==
  /\ isStreaming
  /\ LET conversationId == activeConversation[1].id
         partial == IF Has(streamingByConversation, conversationId)
                      THEN streamingByConversation[conversationId].content
                      ELSE <<>>
         controller == IF Has(abortControllers, conversationId)
                         THEN {abortControllers[conversationId]}
                         ELSE {}
         rejected == {t \in controller : InLoop(t)}
     IN /\ conversations' =
             IF trim(partial) # <<>>
               THEN AppendMessage(conversations, conversationId,
                                  partialAssistantMessage(partial))
               ELSE conversations
        /\ abortControllers' = Remove(abortControllers, conversationId)
        /\ streamingByConversation' =
             Remove(streamingByConversation, conversationId)
        /\ abortRequested' =
             IF rejected # {}
               THEN Remove(abortRequested, conversationId)
               ELSE Put(abortRequested, conversationId, TRUE)
        /\ sends' =
             [t \in DOMAIN sends |->
                IF t \in rejected
                  THEN CatchAbortError(sends[t])
                  ELSE [sends[t] EXCEPT
                          !.stopSeen = @ \/ (sends[t].conv = conversationId
                                             /\ sends[t].pc = "streaming"
                                             /\ ~sends[t].finalReceived)]]
  /\ noToast /\ UNCHANGED <<activeId, initialLoadFailed, streamingEnabled,
                 mounted, detailLoads, server>>
  /\ UNCHANGED <<delivered, sidebarVars>>

\* ------------------------------------------------------------- display order
\* Number.MAX_SAFE_INTEGER, as the largest integer of the model checker: above
\* every pinnedOrder
MAX_SAFE_INTEGER == 2147483647

Filter(list, keep) ==
  LET RECURSIVE Pick(_)
      Pick(i) == IF i > Len(list) THEN <<>>
                 ELSE IF list[i].id \in keep THEN <<list[i]>> \o Pick(i + 1)
                 ELSE Pick(i + 1)
  IN Pick(1)

\* a comparator that puts the earlier pin first
comparePinned_earlierPinFirst(a, b) ==
  LET aOrder == OrElse(a.pinnedOrder, MAX_SAFE_INTEGER)
      bOrder == OrElse(b.pinnedOrder, MAX_SAFE_INTEGER)
  IN IF aOrder # bOrder THEN aOrder - bOrder
     ELSE timestamp(a.pinnedAt) - timestamp(b.pinnedAt)

\* the comparator of sortPinnedConversations
comparePinned(a, b) ==
  LET aOrder == OrElse(a.pinnedOrder, MAX_SAFE_INTEGER)
      bOrder == OrElse(b.pinnedOrder, MAX_SAFE_INTEGER)
  IN IF aOrder # bOrder THEN aOrder - bOrder
     ELSE timestamp(b.pinnedAt) - timestamp(a.pinnedAt)

\* the comparator of sortUnpinnedConversations
compareUnpinned(a, b) ==
  LET lastUpdated == b.lastUpdatedAt - a.lastUpdatedAt
  IN IF lastUpdated # 0 THEN lastUpdated
     ELSE b.createdAt - a.createdAt

\* Array.prototype.sort is stable: x goes behind every element that does not
\* compare greater than it
InsertPinned(sorted, x) ==
  LET before == {i \in DOMAIN sorted : comparePinned(sorted[i], x) <= 0}
      k == IF before = {} THEN 0 ELSE Max(before)
  IN SubSeq(sorted, 1, k) \o <<x>> \o SubSeq(sorted, k + 1, Len(sorted))

InsertUnpinned(sorted, x) ==
  LET before == {i \in DOMAIN sorted : compareUnpinned(sorted[i], x) <= 0}
      k == IF before = {} THEN 0 ELSE Max(before)
  IN SubSeq(sorted, 1, k) \o <<x>> \o SubSeq(sorted, k + 1, Len(sorted))

RECURSIVE SortPinned(_)
SortPinned(list) ==
  IF list = <<>> THEN <<>>
  ELSE InsertPinned(SortPinned(SubSeq(list, 1, Len(list) - 1)),
                    list[Len(list)])

RECURSIVE SortUnpinned(_)
SortUnpinned(list) ==
  IF list = <<>> THEN <<>>
  ELSE InsertUnpinned(SortUnpinned(SubSeq(list, 1, Len(list) - 1)),
                      list[Len(list)])

sortPinnedConversations(list) ==
  SortPinned(Filter(list, {list[i].id : i \in {j \in DOMAIN list :
                                                 list[j].isPinned}}))

sortUnpinnedConversations(list) ==
  SortUnpinned(Filter(list, {list[i].id : i \in {j \in DOMAIN list :
                                                   ~list[j].isPinned}}))

\* ------------------------------------------------------------- sidebar
\* What a pending handler holds: the values of its render (activeId,
\* conversations) and its locals.  Of the conversations it holds, a handler
\* reads the summary fields only.
Summaries(list) == [i \in DOMAIN list |-> [list[i] EXCEPT !.messages = <<>>]]

NewRequest(kind, id) ==
  [kind |-> kind, id |-> id, pc |-> "pending",
   activeId |-> NoId, conversations |-> <<>>,
   previous |-> Absent, nextTitle |-> <<>>, nextPinned |-> FALSE,
   created |-> NoId, ids |-> <<>>]

Pending(r, kind, pc) ==
  r \in DOMAIN requests /\ requests[r].kind = kind /\ requests[r].pc = pc

\* a handler that has returned keeps nothing
Finish(r) ==
  requests' = [requests EXCEPT
                 ![r] = [NewRequest(@.kind, @.id) EXCEPT
                           !.pc = "done", !.created = requests[r].created]]

Ids(list) == {list[i].id : i \in DOMAIN list}

chatVars == <<sessionVars, sends, server, delivered>>

\* the effect on activeId runs when its value changes
SetActiveId(id) ==
  /\ activeId' = id
  /\ detailLoads' = IF id # activeId THEN detailLoads \cup {id}
                    ELSE detailLoads

\* a delete that removes the record before the backend answers
handleDeleteConversation_optimistic(id) ==
  /\ HasConversation(id)
  /\ Len(requests) < MaxRequests
  /\ requests' = Append(requests,
       [NewRequest("delete", id) EXCEPT
          !.activeId = activeId,
          !.conversations = Summaries(conversations)])
  /\ conversations' = Filter(conversations, Ids(conversations) \ {id})
  /\ noToast
  /\ UNCHANGED <<activeId, initialLoadFailed, streamingEnabled,
                 mounted, detailLoads, chatVars, backendConversations, calc>>

\* handleDeleteConversation(id), up to the DELETE request
handleDeleteConversation(id) ==
  /\ HasConversation(id)
  /\ Len(requests) < MaxRequests
  /\ requests' = Append(requests,
       [NewRequest("delete", id) EXCEPT
          !.activeId = activeId,
          !.conversations = Summaries(conversations)])
  /\ noToast
  /\ UNCHANGED <<conversations, activeId, initialLoadFailed, streamingEnabled,
                 mounted, detailLoads, chatVars, backendConversations, calc>>

\* the conversations in the order the sidebar shows them
DisplayOrder(list) ==
  sortPinnedConversations(list) \o sortUnpinnedConversations(list)

\* the DELETE request is acknowledged and the handler goes on
DeleteConfirmed(r) ==
  /\ Pending(r, "delete", "pending")
  /\ LET id == requests[r].id
         remaining == Filter(requests[r].conversations,
                             Ids(requests[r].conversations) \ {id})
         nextSorted == DisplayOrder(remaining)
     IN /\ backendConversations' =
             Filter(backendConversations, Ids(backendConversations) \ {id})
        /\ conversations' =
             Filter(conversations, Ids(conversations) \ {id})
        /\ IF requests[r].activeId # id
             THEN /\ Finish(r)
                  /\ UNCHANGED <<activeId, detailLoads>>
             ELSE IF remaining = <<>>
               THEN /\ requests' = [requests EXCEPT ![r].pc = "newchat"]
                    /\ UNCHANGED <<activeId, detailLoads>>
               ELSE /\ Finish(r)
                    /\ SetActiveId(nextSorted[1].id)
  /\ noToast
  /\ UNCHANGED <<initialLoadFailed, streamingEnabled, mounted, chatVars, calc>>

\* the DELETE request fails
DeleteFailed(r) ==
  /\ Pending(r, "delete", "pending")
  /\ showToast("Unable to delete conversation.")
  /\ Finish(r)
  /\ UNCHANGED <<conversations, activeId, detailLoads, backendConversations>>
  /\ UNCHANGED <<initialLoadFailed, streamingEnabled, mounted, chatVars, calc>>

DeleteAnswered(r) == DeleteConfirmed(r) \/ DeleteFailed(r)

\* updateConversation(id, updater), updater given as the record it returns
ReplaceConversation(list, id, record) ==
  [i \in DOMAIN list |-> IF list[i].id = id THEN record ELSE list[i]]

\* the backend's record of a conversation
BackendRecord(id) ==
  backendConversations[CHOOSE i \in ConvIndex(backendConversations, id) : TRUE]

BackendHas(id) == ConvIndex(backendConversations, id) # {}

\* ---- pin
\* the backend's limit of pinned conversations (spec, External interfaces)
MaxPinned == 5

PinnedCount(list) == Cardinality({i \in DOMAIN list : list[i].isPinned})

\* PATCH {isPinned} would exceed the limit: status 400
PinRejected(id, nextPinned) ==
  /\ nextPinned
  /\ ~BackendRecord(id).isPinned
  /\ PinnedCount(backendConversations) >= MaxPinned

\* PATCH {isPinned}: the updated summary; a conversation that gets pinned goes
\* behind the pinned ones
BackendPinned(id, nextPinned) ==
  LET record == BackendRecord(id)
      orders == {OrElse(backendConversations[i].pinnedOrder, 0) :
                   i \in DOMAIN backendConversations}
  IN IF nextPinned = record.isPinned THEN record
     ELSE IF nextPinned
       THEN [record EXCEPT !.isPinned = TRUE,
                           !.pinnedAt = Some(Now(backendConversations)),
                           !.pinnedOrder = Some(1 + Max(orders \cup {0}))]
       ELSE [record EXCEPT !.isPinned = FALSE, !.pinnedAt = Absent,
                           !.pinnedOrder = Absent]

\* handleTogglePin(id), up to the PATCH request
handleTogglePin(id) ==
  /\ HasConversation(id)
  /\ Len(requests) < MaxRequests
  /\ LET conversation == FindConversation(id)
         nextPinned == ~conversation.isPinned
     IN /\ conversations' =
             ReplaceConversation(conversations, id,
               [conversation EXCEPT
                  !.isPinned = nextPinned,
                  !.pinnedAt = IF nextPinned THEN Some(Now(conversations))
                               ELSE Absent])
        /\ requests' = Append(requests,
             [NewRequest("pin", id) EXCEPT
                !.previous = Some(conversation),
                !.nextPinned = nextPinned])
  /\ noToast
  /\ UNCHANGED <<activeId, initialLoadFailed, streamingEnabled, mounted,
                 detailLoads, chatVars, backendConversations, calc>>

\* a catch block that leaves the optimistic record in the store
Rollback_keepsOptimistic(r) ==
  UNCHANGED conversations

\* the catch block of a handler: updateConversation(id, () => previous)
Rollback(r) ==
  conversations' =
    ReplaceConversation(conversations, requests[r].id, requests[r].previous[1])

\* a success branch that normalizes the response without the current record
Reconcile_dropsMessages(r, data) ==
  conversations' =
    ReplaceConversation(conversations, requests[r].id,
                        normalizeConversation(data, Absent))

\* on success: updateConversation(id, current => normalizeConversation(data,
\* current))
Reconcile(r, data) ==
  conversations' =
    [i \in DOMAIN conversations |->
       IF conversations[i].id = requests[r].id
         THEN normalizeConversation(data, Some(conversations[i]))
         ELSE conversations[i]]

\* the PATCH request of a pin toggle is answered
TogglePinAnswered(r) ==
  /\ Pending(r, "pin", "pending")
  /\ LET id == requests[r].id
         nextPinned == requests[r].nextPinned
     IN \/ /\ BackendHas(id) /\ ~PinRejected(id, nextPinned)
           /\ LET data == BackendPinned(id, nextPinned)
              IN /\ backendConversations' =
                      ReplaceConversation(backendConversations, id, data)
                 /\ Reconcile(r, data)
           /\ noToast
        \/ /\ BackendHas(id) /\ PinRejected(id, nextPinned)
           /\ Rollback(r)
           /\ showToast("Max 5 pinned conversations")
           /\ UNCHANGED backendConversations
        \/ /\ Rollback(r)
           /\ showToast("Unable to update pin.")
           /\ UNCHANGED backendConversations
  /\ Finish(r)
  /\ UNCHANGED <<activeId, initialLoadFailed, streamingEnabled, mounted,
                 detailLoads, chatVars, calc>>

\* ---- rename
\* handleRenameConversation(id, title), up to the PATCH request
handleRenameConversation(id, title) ==
  /\ Len(requests) < MaxRequests
  /\ trim(title) # <<>>
  /\ HasConversation(id)
  /\ LET nextTitle == trim(title)
         previous == FindConversation(id)
     IN /\ conversations' =
             ReplaceConversation(conversations, id,
                                 [previous EXCEPT !.title = nextTitle])
        /\ requests' = Append(requests,
             [NewRequest("rename", id) EXCEPT
                !.previous = Some(previous),
                !.nextTitle = nextTitle])
  /\ noToast
  /\ UNCHANGED <<activeId, initialLoadFailed, streamingEnabled, mounted,
                 detailLoads, chatVars, backendConversations, calc>>

\* the PATCH request of a rename is answered with the updated summary
RenameAccepted(r) ==
  /\ Pending(r, "rename", "pending")
  /\ BackendHas(requests[r].id)
  /\ LET id == requests[r].id
         data == [BackendRecord(id) EXCEPT !.title = requests[r].nextTitle]
     IN /\ backendConversations' =
             ReplaceConversation(backendConversations, id, data)
        /\ Reconcile(r, data)
  /\ noToast
  /\ Finish(r)
  /\ UNCHANGED <<activeId, initialLoadFailed, streamingEnabled, mounted,
                 detailLoads, chatVars, calc>>

\* the PATCH request of a rename fails
RenameRejected(r) ==
  /\ Pending(r, "rename", "pending")
  /\ Rollback(r)
  /\ showToast("Failed to rename conversation.")
  /\ Finish(r)
  /\ UNCHANGED <<activeId, initialLoadFailed, streamingEnabled, mounted,
                 detailLoads, chatVars, backendConversations, calc>>

RenameAnswered(r) == RenameAccepted(r) \/ RenameRejected(r)

\* ---- reorder pinned
\* ids.indexOf(id) + 1: the position of id in ids, 0 when it is not there
indexOf(ids, id) ==
  LET at == {i \in DOMAIN ids : ids[i] = id}
  IN IF at = {} THEN 0 ELSE CHOOSE i \in at : \A j \in at : i <= j

\* arrayMove(ids, oldIndex, newIndex) of the sidebar's handleDragEnd: the
\* element at oldIndex is taken out and put in at newIndex
arrayMove(ids, oldIndex, newIndex) ==
  LET without == SubSeq(ids, 1, oldIndex - 1)
                   \o SubSeq(ids, oldIndex + 1, Len(ids))
  IN SubSeq(without, 1, newIndex - 1) \o <<ids[oldIndex]>>
       \o SubSeq(without, newIndex, Len(without))

\* the ids of the pinned section as the sidebar shows it
pinnedIds ==
  LET pinnedConversations == sortPinnedConversations(conversations)
  IN [i \in DOMAIN pinnedConversations |-> pinnedConversations[i].id]

\* the optimistic update of handleReorderPinned
Reordered(list, ids) ==
  [i \in DOMAIN list |->
     LET index == indexOf(ids, list[i].id)
     IN IF index = 0
          THEN IF list[i].isPinned
                 THEN [list[i] EXCEPT !.pinnedOrder = Absent]
                 ELSE list[i]
          ELSE [list[i] EXCEPT !.isPinned = TRUE,
                               !.pinnedOrder = Some(index)]]

\* a pinned conversation is dragged onto another one: handleDragEnd and
\* handleReorderPinned(ids), up to the PUT request
handleReorderPinned(oldIndex, newIndex) ==
  /\ oldIndex \in DOMAIN pinnedIds /\ newIndex \in DOMAIN pinnedIds
  /\ oldIndex # newIndex
  /\ Len(requests) < MaxRequests
  /\ LET ids == arrayMove(pinnedIds, oldIndex, newIndex)
     IN /\ conversations' = Reordered(conversations, ids)
        /\ requests' = Append(requests,
             [NewRequest("reorder", NoId) EXCEPT
                !.conversations = conversations,
                !.ids = ids])
  /\ noToast
  /\ UNCHANGED <<activeId, initialLoadFailed, streamingEnabled, mounted,
                 detailLoads, chatVars, backendConversations, calc>>

\* PUT /conversations/pinned-order is acknowledged: the backend has the order
ReorderAccepted(r) ==
  /\ Pending(r, "reorder", "pending")
  /\ backendConversations' =
       [i \in DOMAIN backendConversations |->
          LET index == indexOf(requests[r].ids, backendConversations[i].id)
          IN IF index = 0 THEN backendConversations[i]
             ELSE [backendConversations[i] EXCEPT
                     !.pinnedOrder = Some(index)]]
  /\ noToast
  /\ Finish(r)
  /\ UNCHANGED <<conversations, activeId, initialLoadFailed, streamingEnabled,
                 mounted, detailLoads, chatVars, calc>>

\* the PUT request fails: setConversations(previous)
ReorderRejected(r) ==
  /\ Pending(r, "reorder", "pending")
  /\ conversations' = requests[r].conversations
  /\ showToast("Unable to reorder pinned conversations.")
  /\ Finish(r)
  /\ UNCHANGED <<activeId, initialLoadFailed, streamingEnabled, mounted,
                 detailLoads, chatVars, backendConversations, calc>>

ReorderAnswered(r) == ReorderAccepted(r) \/ ReorderRejected(r)

\* ---- new chat
\* the conversation the backend creates next
NewBackendConversation ==
  LET used == {requests[r].created : r \in DOMAIN requests}
      n == Cardinality(used \ {NoId}) + 1
  IN BackendConversation(NewConversationIds[n], FALSE, Absent,
                         Now(backendConversations))

CanCreate ==
  Cardinality({requests[r].created : r \in DOMAIN requests} \ {NoId})
    < Len(NewConversationIds)

\* handleNewChat: POST /conversations is answered
NewChatAnswered(r) ==
  /\ r \in DOMAIN requests /\ requests[r].pc = "newchat"
  /\ \/ /\ CanCreate
        /\ LET data == NewBackendConversation
           IN /\ backendConversations' = <<data>> \o backendConversations
              /\ conversations' =
                   <<normalizeConversation(data, Absent)>> \o conversations
              /\ SetActiveId(data.id)
              /\ requests' = [requests EXCEPT ![r].pc = "newchatLoad",
                                              ![r].created = data.id]
        /\ noToast
     \/ /\ showToast("Unable to create a new conversation.")
        /\ Finish(r)
        /\ UNCHANGED <<conversations, activeId, detailLoads,
                       backendConversations>>
  /\ UNCHANGED <<initialLoadFailed, streamingEnabled, mounted, chatVars, calc>>

\* handleNewChat: its own load of the new conversation is answered
NewChatLoaded(r) ==
  /\ r \in DOMAIN requests /\ requests[r].pc = "newchatLoad"
  /\ \/ /\ loadMessages(requests[r].created)
        /\ noToast
     \/ /\ showToast("Unable to create a new conversation.")
        /\ UNCHANGED conversations
  /\ Finish(r)
  /\ UNCHANGED <<activeId, initialLoadFailed, streamingEnabled, mounted,
                 detailLoads, chatVars, backendConversations, calc>>

\* ------------------------------------------------------------- specification
\* Spec keeps the conversation chosen by the initial load active.
Next ==
  \/ InitialLoad
  \/ handleRetryLoad
  \/ \E id \in ConvIds : LoadDetails(id)
  \/ \E value \in UserTexts : ClickSend(value)
  \/ \E value \in UserTexts : PressEnter(value)
  \/ handleStopStreaming
  \/ \E t \in DOMAIN sends : BackendRecords(t)
  \/ \E t \in DOMAIN sends : StreamStatus(t)
  \/ \E t \in DOMAIN sends, delta \in Deltas : StreamDelta(t, delta)
  \/ \E t \in DOMAIN sends, warning \in Warnings : StreamFinal(t, warning)
  \/ \E t \in DOMAIN sends : StreamErrorEvent(t)
  \/ \E t \in DOMAIN sends : StreamTransportError(t)
  \/ \E t \in DOMAIN sends : StreamEnd(t)
  \/ \E t \in DOMAIN sends : Recover(t)
  \/ \E t \in DOMAIN sends : FallbackSend(t)
  \/ \E t \in DOMAIN sends : FallbackReload(t)
  \/ \E t \in DOMAIN sends : Reload(t)
  \/ \E t \in DOMAIN sends : Post(t)
  \/ \E t \in DOMAIN sends : PostReload(t)

Spec == Init /\ [][Next]_vars

\* The sends of Spec with the sidebar: the conversations are loaded, A is
\* active; the user sends, switches the conversation and deletes
\* conversations while a stream is in flight. With two conversations and one
\* delete request a conversation always remains, so the handler never goes on
\* to create one.
MaxSwitchSends == 1
MaxSwitchRequests == 1

\* an exchange the backend stored for the second conversation earlier
StoredExchange == <<BackendUserMessage(1, <<"q">>), BackendReply(2)>>

SwitchInit ==
  /\ conversations = [i \in DOMAIN ServerConversations |->
                        normalizeConversation(ServerConversations[i], Absent)]
  /\ activeId = ServerConversations[1].id
  /\ streamingByConversation = EmptyMap
  /\ abortControllers = EmptyMap
  /\ abortRequested = EmptyMap
  /\ toastMessage = NoToast
  /\ initialLoadFailed = FALSE
  /\ streamingEnabled \in BOOLEAN
  /\ mounted = TRUE
  /\ detailLoads = {}
  /\ sends = <<>>
  /\ server = [c \in AllConvIds |->
                IF c = ServerConversations[2].id THEN StoredExchange
                ELSE <<>>]
  /\ delivered = 0
  /\ backendConversations = ServerConversations
  /\ requests = <<>>
  /\ calc = <<>>

SwitchNext ==
  \/ \E id \in AllConvIds : LoadDetails(id)
  \/ \E value \in UserTexts : Len(sends) < MaxSwitchSends /\ ClickSend(value)
  \/ \E id \in ConvIds : handleSelectConversation(id)
  \/ \E id \in ConvIds :
       Len(requests) < MaxSwitchRequests /\ handleDeleteConversation(id)
  \/ \E r \in DOMAIN requests : DeleteAnswered(r)
  \/ \E t \in DOMAIN sends : BackendRecords(t)
  \/ \E t \in DOMAIN sends : StreamStatus(t)
  \/ \E t \in DOMAIN sends, delta \in Deltas : StreamDelta(t, delta)
  \/ \E t \in DOMAIN sends, warning \in Warnings : StreamFinal(t, warning)
  \/ \E t \in DOMAIN sends : StreamErrorEvent(t)
  \/ \E t \in DOMAIN sends : StreamTransportError(t)
  \/ \E t \in DOMAIN sends : StreamEnd(t)
  \/ \E t \in DOMAIN sends : Recover(t)
  \/ \E t \in DOMAIN sends : FallbackSend(t)
  \/ \E t \in DOMAIN sends : FallbackReload(t)
  \/ \E t \in DOMAIN sends : Reload(t)
  \/ \E t \in DOMAIN sends : Post(t)
  \/ \E t \in DOMAIN sends : PostReload(t)

SwitchSpec == SwitchInit /\ [][SwitchNext]_vars

\* One streamed send next to one sidebar request that edits summaries: two
\* pinned conversations are loaded, A is active and its details are loaded;
\* the user sends, stops, renames, pins, unpins or reorders while the other
\* is in flight.
MaxEditSends == 1
MaxEditRequests == 1

PinnedPair ==
  << BackendConversation("A", TRUE, Some(1), 2),
     BackendConversation("B", TRUE, Some(2), 1) >>

EditInit ==
  /\ conversations = [i \in DOMAIN PinnedPair |->
                        normalizeConversation(PinnedPair[i], Absent)]
  /\ activeId = PinnedPair[1].id
  /\ streamingByConversation = EmptyMap
  /\ abortControllers = EmptyMap
  /\ abortRequested = EmptyMap
  /\ toastMessage = NoToast
  /\ initialLoadFailed = FALSE
  /\ streamingEnabled = TRUE
  /\ mounted = TRUE
  /\ detailLoads = {}
  /\ sends = <<>>
  /\ server = [c \in AllConvIds |-> <<>>]
  /\ delivered = 0
  /\ backendConversations = PinnedPair
  /\ requests = <<>>
  /\ calc = <<>>

EditNext ==
  \/ \E value \in UserTexts : Len(sends) < MaxEditSends /\ ClickSend(value)
  \/ handleStopStreaming
  \/ \E id \in ConvIds, title \in Titles :
       Len(requests) < MaxEditRequests /\ handleRenameConversation(id, title)
  \/ \E r \in DOMAIN requests : RenameAnswered(r)
  \/ \E id \in ConvIds :
       Len(requests) < MaxEditRequests /\ handleTogglePin(id)
  \/ \E r \in DOMAIN requests : TogglePinAnswered(r)
  \/ \E oldIndex, newIndex \in 1..Cardinality(ConvIds) :
       Len(requests) < MaxEditRequests
         /\ handleReorderPinned(oldIndex, newIndex)
  \/ \E r \in DOMAIN requests : ReorderAnswered(r)
  \/ \E t \in DOMAIN sends : BackendRecords(t)
  \/ \E t \in DOMAIN sends : StreamStatus(t)
  \/ \E t \in DOMAIN sends, delta \in Deltas : StreamDelta(t, delta)
  \/ \E t \in DOMAIN sends, warning \in Warnings : StreamFinal(t, warning)
  \/ \E t \in DOMAIN sends : StreamErrorEvent(t)
  \/ \E t \in DOMAIN sends : StreamTransportError(t)
  \/ \E t \in DOMAIN sends : StreamEnd(t)
  \/ \E t \in DOMAIN sends : Recover(t)
  \/ \E t \in DOMAIN sends : FallbackSend(t)
  \/ \E t \in DOMAIN sends : FallbackReload(t)
  \/ \E t \in DOMAIN sends : Reload(t)

EditSpec == EditInit /\ [][EditNext]_vars

\* The sidebar without sends: the conversations are loaded, the first one is
\* active; the user switches, pins, renames and deletes conversations while
\* earlier requests are pending.  The backend's list is one of: a single
\* conversation; two unpinned conversations; four or five pinned
\* conversations next to A (and B).
PinnedConversations(bPinned) ==
  << BackendConversation("A", FALSE, Absent, 6),
     BackendConversation("B", bPinned,
                         IF bPinned THEN Some(5) ELSE Absent, 5),
     BackendConversation("P1", TRUE, Some(1), 4),
     BackendConversation("P2", TRUE, Some(2), 3),
     BackendConversation("P3", TRUE, Some(3), 2),
     BackendConversation("P4", TRUE, Some(4), 1) >>

SidebarLists ==
  { <<BackendConversation("A", FALSE, Absent, 1)>>,
    ServerConversations,
    PinnedConversations(FALSE),
    PinnedConversations(TRUE) }

SidebarInit ==
  /\ backendConversations \in SidebarLists
  /\ conversations = [i \in DOMAIN backendConversations |->
                        normalizeConversation(backendConversations[i], Absent)]
  /\ activeId = backendConversations[1].id
  /\ streamingByConversation = EmptyMap
  /\ abortControllers = EmptyMap
  /\ abortRequested = EmptyMap
  /\ toastMessage = NoToast
  /\ initialLoadFailed = FALSE
  /\ streamingEnabled = TRUE
  /\ mounted = TRUE
  /\ detailLoads = {}
  /\ sends = <<>>
  /\ server = [c \in AllConvIds |->
                IF c = ServerConversations[2].id THEN StoredExchange
                ELSE <<>>]
  /\ delivered = 0
  /\ requests = <<>>
  /\ calc = <<>>

SidebarNext ==
  \/ \E id \in AllConvIds : LoadDetails(id)
  \/ \E id \in ConvIds : handleSelectConversation(id)
  \/ \E id \in ConvIds : handleTogglePin(id)
  \/ \E r \in DOMAIN requests : TogglePinAnswered(r)
  \/ \E id \in ConvIds, title \in Titles : handleRenameConversation(id, title)
  \/ \E r \in DOMAIN requests : RenameAnswered(r)
  \/ \E id \in ConvIds : handleDeleteConversation(id)
  \/ \E r \in DOMAIN requests : DeleteAnswered(r)
  \/ \E r \in DOMAIN requests : NewChatAnswered(r)
  \/ \E r \in DOMAIN requests : NewChatLoaded(r)

SidebarSpec == SidebarInit /\ [][SidebarNext]_vars

\* ------------------------------------------------------------- first load
\* The mount effect and handleRetryLoad, one step per backend answer: GET
\* /conversations, then for an empty list the POST /conversations of
\* handleNewChat and its load of the new conversation.  The backend holds no
\* conversation, one, or the two of ServerConversations.
MaxLoads == 3

LoadLists == { <<>>, <<ServerConversations[1]>>, ServerConversations }

LoadInit ==
  /\ conversations = <<>>
  /\ activeId = NoId
  /\ streamingByConversation = EmptyMap
  /\ abortControllers = EmptyMap
  /\ abortRequested = EmptyMap
  /\ toastMessage = NoToast
  /\ initialLoadFailed = FALSE
  /\ streamingEnabled \in BOOLEAN
  /\ mounted = FALSE
  /\ detailLoads = {}
  /\ sends = <<>>
  /\ server = [c \in AllConvIds |-> <<>>]
  /\ delivered = 0
  /\ backendConversations \in LoadLists
  /\ requests = <<>>
  /\ calc = <<>>

\* the mount effect starts load(): GET /conversations is issued
StartLoad ==
  /\ ~mounted
  /\ mounted' = TRUE
  /\ requests' = Append(requests, [NewRequest("load", NoId) EXCEPT !.pc = "list"])
  /\ noToast
  /\ UNCHANGED <<conversations, activeId, initialLoadFailed, streamingEnabled,
                 detailLoads, chatVars, backendConversations, calc>>

\* the button of the retry notice: handleRetryLoad up to GET /conversations
RetryLoad ==
  /\ mounted
  /\ initialLoadFailed /\ activeConversation = Absent
  /\ Len(requests) < MaxLoads
  /\ initialLoadFailed' = FALSE
  /\ requests' = Append(requests, [NewRequest("retry", NoId) EXCEPT !.pc = "list"])
  /\ noToast
  /\ UNCHANGED <<conversations, activeId, streamingEnabled, mounted,
                 detailLoads, chatVars, backendConversations, calc>>

\* handleNewChat has returned to the mount effect or to handleRetryLoad: the
\* effect goes on to setInitialLoadFailed(false), handleRetryLoad returns
AfterNewChat(r) ==
  /\ initialLoadFailed' =
       IF requests[r].kind = "load" THEN FALSE ELSE initialLoadFailed
  /\ Finish(r)

\* GET /conversations is answered
ConversationsAnswered(r) ==
  /\ r \in DOMAIN requests /\ requests[r].pc = "list"
  /\ \/ /\ syncConversations(backendConversations)
        /\ IF Len(backendConversations) = 0
             THEN /\ requests' = [requests EXCEPT ![r].pc = "firstChat"]
                  /\ UNCHANGED initialLoadFailed
             ELSE AfterNewChat(r)
        /\ noToast
     \/ /\ showToast("Backend unreachable. Check NEXT_PUBLIC_API_BASE_URL.")
        /\ initialLoadFailed' = TRUE
        /\ Finish(r)
        /\ UNCHANGED <<conversations, activeId, detailLoads>>
  /\ UNCHANGED <<streamingEnabled, mounted, chatVars, backendConversations,
                 calc>>

\* handleNewChat called by the load: POST /conversations is answered
FirstChatAnswered(r) ==
  /\ r \in DOMAIN requests /\ requests[r].pc = "firstChat"
  /\ \/ /\ CanCreate
        /\ LET data == NewBackendConversation
           IN /\ backendConversations' = <<data>> \o backendConversations
              /\ conversations' =
                   <<normalizeConversation(data, Absent)>> \o conversations
              /\ SetActiveId(data.id)
              /\ requests' = [requests EXCEPT ![r].pc = "firstChatLoad",
                                              ![r].created = data.id]
        /\ noToast
        /\ UNCHANGED initialLoadFailed
     \/ /\ showToast("Unable to create a new conversation.")
        /\ AfterNewChat(r)
        /\ UNCHANGED <<conversations, activeId, detailLoads,
                       backendConversations>>
  /\ UNCHANGED <<streamingEnabled, mounted, chatVars, calc>>

\* handleNewChat called by the load: its load of the new conversation is
\* answered
FirstChatLoaded(r) ==
  /\ r \in DOMAIN requests /\ requests[r].pc = "firstChatLoad"
  /\ \/ /\ loadMessages(requests[r].created)
        /\ noToast
     \/ /\ showToast("Unable to create a new conversation.")
        /\ UNCHANGED conversations
  /\ AfterNewChat(r)
  /\ UNCHANGED <<activeId, streamingEnabled, mounted, detailLoads, chatVars,
                 backendConversations, calc>>

LoadNext ==
  \/ StartLoad
  \/ RetryLoad
  \/ \E r \in DOMAIN requests : ConversationsAnswered(r)
  \/ \E r \in DOMAIN requests : FirstChatAnswered(r)
  \/ \E r \in DOMAIN requests : FirstChatLoaded(r)
  \/ \E id \in AllConvIds : LoadDetails(id)
  \/ \E id \in ConvIds : handleSelectConversation(id)

LoadSpec == LoadInit /\ [][LoadNext]_vars

\* ------------------------------------------------------------- updateConversation
\* updateConversation(id, updater) hands prev => prev.map(...) to
\* setConversations; the queued functions are applied, in the order of the
\* calls, when the component renders next.  calc holds the calls not yet
\* applied and the number of calls applied.
Updaters ==
  [kind : {"title", "append", "reset"}, text : { <<"X">>, <<"Y">> }]

\* the updaters the handlers pass: a field replaced, a message appended, a
\* record that does not depend on the current one
ApplyUpdater(updater, conversation) ==
  CASE updater.kind = "title" ->
         [conversation EXCEPT !.title = updater.text]
    [] updater.kind = "append" ->
         [conversation EXCEPT
            !.messages = Append(@, optimisticUserMessage(updater.text))]
    [] updater.kind = "reset" ->
         [conversation EXCEPT !.title = updater.text, !.messages = <<>>]

\* an update that is not keyed by the id
updateConversation_everyRecord(list, id, updater) ==
  [i \in DOMAIN list |-> ApplyUpdater(updater, list[i])]

updateConversation(list, id, updater) ==
  [i \in DOMAIN list |->
     IF list[i].id = id THEN ApplyUpdater(updater, list[i]) ELSE list[i]]

RECURSIVE ApplyPending(_, _)
ApplyPending(list, pending) ==
  IF pending = <<>> THEN list
  ELSE ApplyPending(
         updateConversation(list, pending[1].id, pending[1].updater),
         Tail(pending))

UpdateLists ==
  { <<>>,
    <<normalizeConversation(ServerConversations[1], Absent)>>,
    [i \in DOMAIN ServerConversations |->
       normalizeConversation(ServerConversations[i], Absent)] }

\* everything but the store and calc
restVars ==
  <<activeId, sessionVars, toastMessage, initialLoadFailed, streamingEnabled,
    mounted, detailLoads, sends, server, delivered, backendConversations,
    requests>>

RestInit ==
  /\ activeId = NoId
  /\ streamingByConversation = EmptyMap
  /\ abortControllers = EmptyMap
  /\ abortRequested = EmptyMap
  /\ toastMessage = NoToast
  /\ initialLoadFailed = FALSE
  /\ streamingEnabled = TRUE
  /\ mounted = TRUE
  /\ detailLoads = {}
  /\ sends = <<>>
  /\ server = [c \in AllConvIds |-> <<>>]
  /\ delivered = 0
  /\ backendConversations = <<>>
  /\ requests = <<>>

UpdateInit ==
  /\ conversations \in UpdateLists
  /\ calc = [pending |-> <<>>, applied |-> 0]
  /\ RestInit

CallUpdateConversation(id, updater) ==
  /\ calc.applied + Len(calc.pending) < MaxUpdates
  /\ calc' = [calc EXCEPT
                !.pending = Append(@, [id |-> id, updater |-> updater])]
  /\ UNCHANGED <<conversations, restVars>>

\* the next render applies the queued updates
ApplyUpdates ==
  /\ calc.pending # <<>>
  /\ conversations' = ApplyPending(conversations, calc.pending)
  /\ calc' = [pending |-> <<>>,
              applied |-> calc.applied + Len(calc.pending)]
  /\ UNCHANGED restVars

UpdateNext ==
  \/ \E id \in ConvIds, updater \in Updaters :
       CallUpdateConversation(id, updater)
  \/ ApplyUpdates

UpdateSpec == UpdateInit /\ [][UpdateNext]_vars

\* ------------------------------------------------------------- display order
\* The memoized pinnedConversations and unpinnedConversations of a store, and
\* the sorts applied to their own output.
SortIds == <<"c1", "c2", "c3", "c4", "c5", "c6">>   \* ids by position

\* summaries: a pinned conversation may lack pinnedOrder and pinnedAt
SortKinds ==
  [isPinned : {TRUE},
   pinnedOrder : {Absent} \cup {Some(n) : n \in 1..MaxOrder},
   pinnedAt : {Absent} \cup {Some(n) : n \in 1..MaxStamp},
   lastUpdatedAt : {1}, createdAt : {1}]
  \cup
  [isPinned : {FALSE}, pinnedOrder : {Absent}, pinnedAt : {Absent},
   lastUpdatedAt : 1..MaxStamp, createdAt : 1..MaxStamp]

SortInput(kinds) ==
  [i \in DOMAIN kinds |->
     normalizeConversation(
       [id |-> SortIds[i], title |-> <<"t">>,
        createdAt |-> kinds[i].createdAt,
        lastUpdatedAt |-> kinds[i].lastUpdatedAt,
        isPinned |-> kinds[i].isPinned,
        pinnedAt |-> kinds[i].pinnedAt,
        pinnedOrder |-> kinds[i].pinnedOrder], Absent)]

SortInit ==
  /\ \E n \in 0..MaxSortLen : \E kinds \in [1..n -> SortKinds] :
       conversations = SortInput(kinds)
  /\ calc = [stage |-> "input", pinned |-> <<>>, unpinned |-> <<>>,
             pinnedAgain |-> <<>>, unpinnedAgain |-> <<>>]
  /\ RestInit

\* pinnedConversations, unpinnedConversations
SortConversations ==
  /\ calc.stage = "input"
  /\ calc' = [calc EXCEPT
                !.stage = "sorted",
                !.pinned = sortPinnedConversations(conversations),
                !.unpinned = sortUnpinnedConversations(conversations)]
  /\ UNCHANGED <<conversations, restVars>>

SortAgain ==
  /\ calc.stage = "sorted"
  /\ calc' = [calc EXCEPT
                !.stage = "again",
                !.pinnedAgain = sortPinnedConversations(calc.pinned),
                !.unpinnedAgain = sortUnpinnedConversations(calc.unpinned)]
  /\ UNCHANGED <<conversations, restVars>>

SortNext == SortConversations \/ SortAgain

SortSpec == SortInit /\ [][SortNext]_vars

\* ------------------------------------------------------------- streamSSE
\* The response body is a sequence of characters; the texts "event:" and
\* "data:" count as one character each (a read that ends inside one of them
\* is joined to the next in the buffer before anything is looked at).
\* calc holds the body, what the transport has delivered of it, and the
\* generator's buffer and the events it has yielded.
Newline == "\n"

\* buffer.split("\n\n"), chunk.split("\n")
RECURSIVE SplitOnBlankLine(_)
SplitOnBlankLine(text) ==
  LET at == {i \in 1..(Len(text) - 1) :
               text[i] = Newline /\ text[i + 1] = Newline}
  IN IF at = {} THEN <<text>>
     ELSE LET i == CHOOSE k \in at : \A m \in at : k <= m
          IN <<SubSeq(text, 1, i - 1)>>
               \o SplitOnBlankLine(SubSeq(text, i + 2, Len(text)))

RECURSIVE SplitOnNewline(_)
SplitOnNewline(text) ==
  LET at == {i \in 1..Len(text) : text[i] = Newline}
  IN IF at = {} THEN <<text>>
     ELSE LET i == CHOOSE k \in at : \A m \in at : k <= m
          IN <<SubSeq(text, 1, i - 1)>>
               \o SplitOnNewline(SubSeq(text, i + 1, Len(text)))

\* dataLines.join("\n")
RECURSIVE JoinLines(_)
JoinLines(lines) ==
  IF lines = <<>> THEN <<>>
  ELSE IF Len(lines) = 1 THEN lines[1]
  ELSE lines[1] \o <<Newline>> \o JoinLines(Tail(lines))

\* JSON.parse on the texts of the model: white space around a value is
\* skipped; a run of digits is a number, "{" "}" is an object, anything else
\* throws
IsJsonSpace(ch) == ch \in {" ", Newline}

RECURSIVE SkipJsonSpace(_)
SkipJsonSpace(text) ==
  IF text # <<>> /\ IsJsonSpace(Head(text)) THEN SkipJsonSpace(Tail(text))
  ELSE text

RECURSIVE DropJsonSpaceAtEnd(_)
DropJsonSpaceAtEnd(text) ==
  IF text # <<>> /\ IsJsonSpace(text[Len(text)])
    THEN DropJsonSpaceAtEnd(SubSeq(text, 1, Len(text) - 1))
    ELSE text

JSONparse(text) ==
  LET value == DropJsonSpaceAtEnd(SkipJsonSpace(text))
      inner == IF Len(value) >= 2
                 THEN SubSeq(value, 2, Len(value) - 1) ELSE <<>>
  IN IF value # <<>> /\ \A i \in DOMAIN value : value[i] = "1"
       THEN [parsed |-> TRUE, value |-> [number |-> Len(value)]]
     ELSE IF /\ Len(value) >= 2
             /\ value[1] = "{" /\ value[Len(value)] = "}"
             /\ \A i \in DOMAIN inner : IsJsonSpace(inner[i])
       THEN [parsed |-> TRUE, value |-> [object |-> "empty"]]
     ELSE [parsed |-> FALSE, value |-> text]

\* a loop that keeps the lines as they are
RECURSIVE ScanLines_untrimmed(_, _, _)
ScanLines_untrimmed(lines, eventName, dataLines) ==
  IF lines = <<>> THEN [eventName |-> eventName, dataLines |-> dataLines]
  ELSE LET line == Head(lines)
       IN IF line # <<>> /\ line[1] = "event:"
            THEN ScanLines_untrimmed(Tail(lines), Tail(line), dataLines)
          ELSE IF line # <<>> /\ line[1] = "data:"
            THEN ScanLines_untrimmed(Tail(lines), eventName,
                                     Append(dataLines, Tail(line)))
          ELSE ScanLines_untrimmed(Tail(lines), eventName, dataLines)

\* the loop over the lines of one chunk
RECURSIVE ScanLines(_, _, _)
ScanLines(lines, eventName, dataLines) ==
  IF lines = <<>> THEN [eventName |-> eventName, dataLines |-> dataLines]
  ELSE LET line == Head(lines)
       IN IF line # <<>> /\ line[1] = "event:"
            THEN ScanLines(Tail(lines), trim(Tail(line)), dataLines)
          ELSE IF line # <<>> /\ line[1] = "data:"
            THEN ScanLines(Tail(lines), eventName,
                           Append(dataLines, trim(Tail(line))))
          ELSE ScanLines(Tail(lines), eventName, dataLines)

\* the event yielded for one chunk
EventOfChunk(chunk) ==
  LET scan == ScanLines(SplitOnNewline(chunk), <<"message">>, <<>>)
      dataString == JoinLines(scan.dataLines)
      json == JSONparse(dataString)
  IN [event |-> scan.eventName,
      data |-> IF dataString # <<>> /\ json.parsed
                 THEN [json |-> json.value]
                 ELSE [text |-> dataString]]

\* a generator that forgets what is left of the buffer
Decode_dropsRemainder(buffer, value) ==
  LET chunks == SplitOnBlankLine(buffer \o value)
  IN [buffer |-> <<>>,
      events |-> [i \in 1..(Len(chunks) - 1) |-> EventOfChunk(chunks[i])]]

\* one pass of the while loop: the read is added to the buffer, the buffer
\* is split, the last piece is kept and the others are yielded
Decode(buffer, value) ==
  LET chunks == SplitOnBlankLine(buffer \o value)
  IN [buffer |-> chunks[Len(chunks)],
      events |-> [i \in 1..(Len(chunks) - 1) |-> EventOfChunk(chunks[i])]]

\* lines the backend writes: fields with and without padding, values that
\* are JSON and values that are not, and a line that is no field
SseLines ==
  { <<"event:", "s">>, <<"event:", " ", "d", " ">>,
    <<"data:", "1">>, <<"data:", " ", "x", " ">>,
    <<"data:", "{">>, <<"data:", "}">>, <<":">> }

SseBlocks == UNION {[1..n -> SseLines] : n \in 1..MaxBlockLines}

\* what may follow the last complete block: nothing, or a block whose blank
\* line has not been written
SseTails == { <<>>, <<"data:", "1">>, <<"data:", "1", Newline>> }

RECURSIVE Flatten(_)
Flatten(texts) ==
  IF texts = <<>> THEN <<>> ELSE Head(texts) \o Flatten(Tail(texts))

\* a block on the wire: each line with its newline, then the blank line
BlockText(block) ==
  Flatten([i \in DOMAIN block |-> block[i] \o <<Newline>>]) \o <<Newline>>

SseInit ==
  /\ \E n \in 0..MaxBlocks : \E blocks \in [1..n -> SseBlocks] :
       \E tail \in SseTails :
         calc = [blocks |-> blocks,
                 content |-> Flatten([i \in DOMAIN blocks |->
                                        BlockText(blocks[i])]) \o tail,
                 read |-> 0, buffer |-> <<>>, events |-> <<>>]
  /\ conversations = <<>>
  /\ RestInit

\* reader.read() resolves with the next size characters of the body
Read(size) ==
  /\ calc.read + size <= Len(calc.content)
  /\ LET value == SubSeq(calc.content, calc.read + 1, calc.read + size)
         pass == Decode(calc.buffer, value)
     IN calc' = [calc EXCEPT !.read = @ + size,
                             !.buffer = pass.buffer,
                             !.events = @ \o pass.events]
  /\ UNCHANGED <<conversations, restVars>>

SseNext == \E size \in 1..Len(calc.content) : Read(size)

SseSpec == SseInit /\ [][SseNext]_vars

\* ------------------------------------------------------------- properties
SessionContent(c) == streamingByConversation[c].content
StartsSend(c) == Len(sends') > Len(sends) /\ sends'[Len(sends')].conv = c

\* C1: a send issued while the conversation already has an active stream
\* session is a no-op: while a session entry exists for a conversation, no
\* step starts a send on it (no message inserted, no second stream opened, no
\* reset of the accumulated content).
C1_SendOnActiveSessionIsNoOp ==
  [][\A c \in ConvIds :
       Has(streamingByConversation, c) => ~StartsSend(c)]_vars

IsPrefix(s, u) == Len(s) <= Len(u) /\ SubSeq(u, 1, Len(s)) = s

\* C2: within one stream session, after a delta of a send is processed the
\* accumulated content equals the concatenation, in arrival order, of the
\* deltas received so far for that send, and while the session entry exists
\* its content only changes by appending.
C2_ContentIsDeltasInOrder ==
  [][/\ \A t \in DOMAIN sends :
          (InLoop(t) /\ ~sends[t].finalReceived /\ ~sends[t].stopSeen
             /\ Len(sends'[t].got) > Len(sends[t].got))
            => /\ Has(streamingByConversation', sends[t].conv)
               /\ streamingByConversation'[sends[t].conv].content
                    = sends'[t].got
     /\ \A c \in ConvIds :
          (Has(streamingByConversation, c) /\ Has(streamingByConversation', c))
            => IsPrefix(SessionContent(c), SessionContent(c)')]_vars

Last(list) == list[Len(list)]
Occurrences(list, id) == Cardinality({i \in DOMAIN list : list[i].id = id})

\* the local list shows the backend's list: same ids, roles and contents, in
\* the same order
ShowsBackendList(list, stored) ==
  /\ Len(list) = Len(stored)
  /\ \A i \in DOMAIN list :
       /\ list[i].id = stored[i].id
       /\ list[i].role = stored[i].role
       /\ list[i].content = stored[i].content

\* C3: the step that processes message.final appends exactly one assistant
\* message with the payload's id, content, citations, evidence and metadata
\* to the conversation and discards the session; and when the reload that
\* follows the stream completes the send, the list shows the backend's list
\* and contains that assistant message exactly once.
C3_FinalAppendsOnceThenReload ==
  [][\A t \in DOMAIN sends :
       LET c == sends[t].conv
           payload == server[c][sends[t].replyAt]
           appended == Last(MessagesOf(c)')
       IN /\ (InLoop(t) /\ ~sends[t].finalReceived /\ sends'[t].finalReceived)
               => /\ MessagesOf(c)' = Append(MessagesOf(c), appended)
                  /\ appended.role = "assistant"
                  /\ appended.id = payload.id
                  /\ appended.content = payload.content
                  /\ OrElse(appended.citations, <<>>)
                       = OrElse(payload.citations, <<>>)
                  /\ OrElse(appended.evidence, <<>>)
                       = OrElse(payload.evidence, <<>>)
                  /\ OrElse(appended.meta, "{}") = OrElse(payload.meta, "{}")
                  /\ ~Has(streamingByConversation', c)
          /\ (At(t, "reload") /\ sends[t].finalReceived
                /\ sends'[t].pc = "done")
               => /\ ShowsBackendList(MessagesOf(c)', server'[c])
                  /\ Occurrences(MessagesOf(c)', ServerId(sends[t].replyAt))
                       = 1]_vars

\* C3 witness: a send that received its final has completed; the list shows
\* the backend's list, which ends with the reply, carrying its citations.
C3_Witness ==
  \E t \in DOMAIN sends :
    /\ At(t, "done") /\ sends[t].finalReceived
    /\ server[sends[t].conv] # <<>>
    /\ ShowsBackendList(MessagesOf(sends[t].conv), server[sends[t].conv])
    /\ Last(MessagesOf(sends[t].conv)).role = "assistant"
    /\ Last(MessagesOf(sends[t].conv)).citations = Some(<<"p1">>)
    /\ ~Has(streamingByConversation, sends[t].conv)

\* the stop step commits the accumulated content of conversation c: exactly
\* one assistant message with that content, not streaming, is appended and
\* the session entry is gone
StopCommits(c) ==
  /\ MessagesOf(c)' = Append(MessagesOf(c), Last(MessagesOf(c)'))
  /\ Last(MessagesOf(c)').role = "assistant"
  /\ Last(MessagesOf(c)').content = SessionContent(c)
  /\ ~Last(MessagesOf(c)').isStreaming
  /\ ~Has(streamingByConversation', c)

\* C4 (as stated): a stop requested while the session of a conversation has
\* non-empty accumulated content appends exactly one non-streaming assistant
\* message with that content before the session is discarded.
C4_StopCommitsNonEmptyContent ==
  [][\A c \in ConvIds :
       (handleStopStreaming /\ activeId = c
          /\ Has(streamingByConversation, c) /\ SessionContent(c) # <<>>)
         => StopCommits(c)]_vars

\* C4 (amended): a stop requested while the accumulated content is non-empty
\* after trimming white space appends exactly one non-streaming assistant
\* message with the whole accumulated content (untrimmed) before the session
\* is discarded; content that is empty or white space only is not committed
\* and the message list is left as it is.
C4_StopCommitsNonBlankContent ==
  [][\A c \in ConvIds :
       (handleStopStreaming /\ activeId = c /\ Has(streamingByConversation, c))
         => IF trim(SessionContent(c)) # <<>>
              THEN StopCommits(c)
              ELSE /\ MessagesOf(c)' = MessagesOf(c)
                   /\ ~Has(streamingByConversation', c)]_vars

\* C4 witness: a stop has committed content that has white space in it: the
\* last message is the committed partial reply and the session is gone.
C4_Witness ==
  \E c \in ConvIds :
    /\ MessagesOf(c) # <<>>
    /\ Last(MessagesOf(c)).role = "assistant"
    /\ Last(MessagesOf(c)).id = TmpId
    /\ Last(MessagesOf(c)).content = <<"x", " ">>
    /\ ~Has(streamingByConversation, c)

\* one event of the stream of send t is handled
EventOf(t) ==
  \/ StreamStatus(t)
  \/ \E delta \in Deltas : StreamDelta(t, delta)
  \/ \E warning \in Warnings : StreamFinal(t, warning)
  \/ StreamErrorEvent(t)

SameSession(c) ==
  /\ Has(streamingByConversation', c) <=> Has(streamingByConversation, c)
  /\ Has(streamingByConversation, c)
       => streamingByConversation'[c] = streamingByConversation[c]

\* C5: once stop was requested for a send, no later event of its stream
\* (status, delta, final, error) changes the message list of the
\* conversation, and none creates, changes or removes its session entry.
C5_NoEventAppliesAfterStop ==
  [][\A t \in DOMAIN sends :
       (sends[t].stopSeen /\ EventOf(t))
         => /\ MessagesOf(sends[t].conv)' = MessagesOf(sends[t].conv)
            /\ SameSession(sends[t].conv)]_vars

\* a step of send t: its start is the step that adds it to sends
StepOfSend(t) ==
  \/ t \notin DOMAIN sends
  \/ /\ t \in DOMAIN sends
     /\ \/ EventOf(t) \/ StreamTransportError(t) \/ StreamEnd(t)
        \/ Recover(t) \/ FallbackSend(t) \/ FallbackReload(t)
        \/ Reload(t) \/ Post(t) \/ PostReload(t)

RecordOf(c) == IF HasConversation(c) THEN Some(FindConversation(c)) ELSE Absent

\* C11: every step of a send for conversation A (optimistic insert, event,
\* reload, recovery, fallback) leaves the record and the session entry of
\* every other conversation as they were, whichever conversation is active
\* and whether or not A is still in the store.
C11_SendTouchesOnlyItsConversation ==
  [][\A t \in DOMAIN sends' :
       StepOfSend(t)
         => \A c \in AllConvIds \ {sends'[t].conv} :
              /\ RecordOf(c)' = RecordOf(c)
              /\ SameSession(c)]_vars

\* C11: the send of a conversation that was deleted while it streamed ran to
\* its end while another conversation, with messages, is active
C11_Witness ==
  \E t \in DOMAIN sends :
    /\ ~HasConversation(sends[t].conv)
    /\ sends[t].finalReceived /\ sends[t].pc = "done"
    /\ activeId # NoId /\ activeId # sends[t].conv
    /\ MessagesOf(activeId) # <<>>

\* C6: a send for which stop was requested never enters the reload, the
\* failure recovery or the fallback send: it stays in its loop until it
\* returns.
C6_CancelledSendDoesNotRecover ==
  \A t \in DOMAIN sends :
    sends[t].stopSeen => sends[t].pc \in {"streaming", "done"}

\* the backend's list has no assistant message beyond those it had when send
\* t began
NoNewAssistant(t) ==
  \A i \in DOMAIN server[sends[t].conv] :
    i > sends[t].serverAtStart => server[sends[t].conv][i].role # "assistant"

\* C7: when a stream has ended without final, error or cancellation and the
\* reload that follows shows no new assistant message, the send does not
\* complete there: the fallback send is still to be issued.
C7_EndWithoutFinalIsAFailure ==
  [][\A t \in DOMAIN sends :
       (At(t, "reload") /\ ~sends[t].finalReceived /\ ~sends[t].stopSeen
          /\ NoNewAssistant(t))
         => sends'[t].pc # "done"]_vars

\* C8: after a stream error that is not a cancellation, when the reload has
\* succeeded the fallback send is issued exactly when the reloaded list has
\* no new assistant message, and a fallback send that succeeds is followed by
\* a reload.
C8_FallbackIffNoNewAssistant ==
  [][\A t \in DOMAIN sends :
       /\ (At(t, "recover") /\ ~sends[t].stopSeen
             /\ sends'[t].pc # "recover" /\ toastMessage' = NoToast)
            => (sends'[t].pc = "fallback" <=> NoNewAssistant(t))
       /\ (At(t, "fallback") /\ sends'[t].pc \notin {"fallback", "done"})
            => sends'[t].pc = "fallbackReload"]_vars

HasUserMessage(list, text) ==
  \E i \in DOMAIN list : list[i].role = "user" /\ list[i].content = text

\* C9: when the recovery of a failed stream fails too, a notice is shown and
\* the store is not corrupted: a failed reload leaves the message list as it
\* was, and after a failed fallback send the list still contains the message
\* the user sent.
C9_FailedRecoveryKeepsUserMessage ==
  [][\A t \in DOMAIN sends :
       /\ (At(t, "recover") /\ sends'[t].pc = "done"
             /\ toastMessage' = "Unable to send message.")
            => MessagesOf(sends[t].conv)' = MessagesOf(sends[t].conv)
       /\ (At(t, "fallback") /\ sends'[t].pc = "done")
            => /\ toastMessage' = "Unable to send message."
               /\ HasUserMessage(MessagesOf(sends[t].conv)', sends[t].text)]_vars

Terminated(t) == sends[t].pc \in {"done", "rejected"}

\* C10: with streaming enabled, once every send on a conversation has
\* terminated (completed, failed or cancelled), no session entry, no
\* controller and no stop flag remains for that conversation, whatever
\* events the streams delivered (events after a final included).
C10_NothingLeftAfterTermination ==
  \A c \in ConvIds :
    (streamingEnabled
       /\ \A t \in DOMAIN sends : sends[t].conv = c => Terminated(t))
      => /\ ~Has(streamingByConversation, c)
         /\ ~Has(abortControllers, c)
         /\ ~Has(abortRequested, c)

\* C12: whenever every pin request that was issued has been answered and
\* processed, the store shows at most five pinned conversations.
C12_AtMostFivePinnedWhenSettled ==
  (\A r \in DOMAIN requests :
     requests[r].kind = "pin" => requests[r].pc = "done")
    => PinnedCount(conversations) <= MaxPinned

\* C13: the step that processes the rejection of a rename leaves the store
\* showing the title the conversation had when the rename was applied locally
\* (the record the handler captured), and shows the rename notice, once.
C13_RejectedRenameRestoresTitle ==
  [][\A r \in DOMAIN requests :
       RenameRejected(r)
         => /\ HasConversation(requests[r].id)
                 => FindConversation(requests[r].id)'.title
                      = requests[r].previous[1].title
            /\ toastMessage' = "Failed to rename conversation."]_vars

\* C13: a rename of A was rejected and A shows its title again
C13_Witness ==
  /\ toastMessage = "Failed to rename conversation."
  /\ \E r \in DOMAIN requests :
       /\ requests[r].kind = "rename" /\ requests[r].pc = "done"
       /\ HasConversation(requests[r].id)
       /\ FindConversation(requests[r].id).title = <<"t">>

\* the conversation of a pending delete is in the store as long as the
\* backend has it
PendingDeleteInStore ==
  \A r \in DOMAIN requests :
    (Pending(r, "delete", "pending") /\ BackendHas(requests[r].id))
      => HasConversation(requests[r].id)

\* C14: a conversation leaves the store only in the step that processes the
\* backend's acknowledgment of its deletion; issuing the delete leaves the
\* store as it is, so while a delete is pending the conversation is in the
\* store as long as the backend has it; a failed delete leaves the list and
\* the active id unchanged and shows a notice.
C14_RemovedOnlyWhenConfirmed ==
  [][/\ \A id \in AllConvIds :
          (HasConversation(id) /\ ~HasConversation(id)')
            => /\ \E r \in DOMAIN requests :
                    DeleteConfirmed(r) /\ requests[r].id = id
               /\ id \notin Ids(backendConversations')
     /\ \A id \in AllConvIds :
          handleDeleteConversation(id) => conversations' = conversations
     /\ PendingDeleteInStore'
     /\ \A r \in DOMAIN requests :
          DeleteFailed(r)
            => /\ conversations' = conversations
               /\ activeId' = activeId
               /\ toastMessage' = "Unable to delete conversation."]_vars

\* C14: a delete of a conversation failed; the conversation is in the store
C14_Witness ==
  /\ toastMessage = "Unable to delete conversation."
  /\ \E r \in DOMAIN requests :
       /\ requests[r].kind = "delete" /\ requests[r].pc = "done"
       /\ HasConversation(requests[r].id)
       /\ activeId = requests[r].id

\* C15: the step that processes the acknowledgment of a deletion makes the
\* first conversation of the remaining ones, in display order, the active
\* one when the deleted conversation is the active one (or goes on to create
\* a conversation when none remains), and leaves the active id as it is when
\* the deleted conversation is not the active one.
C15_ReplacementIsFirstInDisplayOrder ==
  [][\A r \in DOMAIN requests :
       DeleteConfirmed(r)
         => IF activeId = requests[r].id
              THEN IF conversations' = <<>>
                     THEN requests'[r].pc = "newchat"
                     ELSE activeId' = DisplayOrder(conversations')[1].id
              ELSE activeId' = activeId]_vars

\* the updaters of the calls for one id, in the order of the calls
UpdatersFor(pending, id) ==
  LET RECURSIVE Pick(_)
      Pick(i) == IF i > Len(pending) THEN <<>>
                 ELSE IF pending[i].id = id
                   THEN <<pending[i].updater>> \o Pick(i + 1)
                   ELSE Pick(i + 1)
  IN Pick(1)

RECURSIVE ApplyInOrder(_, _)
ApplyInOrder(updaters, conversation) ==
  IF updaters = <<>> THEN conversation
  ELSE ApplyInOrder(Tail(updaters), ApplyUpdater(updaters[1], conversation))

\* C16: when queued updateConversation calls are applied, the list keeps its
\* length and order, and each record is the result of the updaters of the
\* calls for its own id, each applied to the result of the one before, in
\* the order of the calls: a record no call names is unchanged, and a call
\* for an id the list does not hold changes nothing.
C16_UpdateReplacesOnlyItsRecord ==
  [][ApplyUpdates
       => /\ Len(conversations') = Len(conversations)
          /\ \A i \in DOMAIN conversations :
               conversations'[i] =
                 ApplyInOrder(UpdatersFor(calc.pending, conversations[i].id),
                              conversations[i])]_vars

\* C16: two updates of A were applied in order (title X, then Y; a message
\* appended) while B is as the backend listed it
C16_Witness ==
  /\ calc.applied = MaxUpdates
  /\ Len(conversations) = 2
  /\ conversations[1].title = <<"Y">>
  /\ Len(conversations[1].messages) = 1
  /\ conversations[2] = normalizeConversation(ServerConversations[2], Absent)

\* the records of out are those of list that satisfy keep, each once
ExactlyThose(out, list, keep(_)) ==
  /\ {out[i] : i \in DOMAIN out} = {list[i] : i \in {j \in DOMAIN list :
                                                        keep(list[j])}}
  /\ Len(out) = Cardinality({out[i] : i \in DOMAIN out})

\* a may stand before b in the pinned list
PinnedInOrder(a, b) ==
  IF a.pinnedOrder # Absent /\ b.pinnedOrder # Absent
    THEN a.pinnedOrder[1] <= b.pinnedOrder[1]
    ELSE IF a.pinnedOrder # Absent THEN TRUE
    ELSE IF b.pinnedOrder # Absent THEN FALSE
    ELSE timestamp(a.pinnedAt) >= timestamp(b.pinnedAt)

\* a may stand before b in the unpinned list
UnpinnedInOrder(a, b) ==
  \/ a.lastUpdatedAt > b.lastUpdatedAt
  \/ a.lastUpdatedAt = b.lastUpdatedAt /\ a.createdAt >= b.createdAt

IsPinned(conversation) == conversation.isPinned
IsUnpinned(conversation) == ~conversation.isPinned

\* C17: the pinned list holds exactly the pinned conversations, by
\* pinnedOrder ascending, those without one behind those with one and among
\* themselves by pinnedAt descending; the unpinned list holds exactly the
\* unpinned ones, by lastUpdatedAt descending and, on ties, createdAt
\* descending; sorting either list again returns it unchanged.
C17_DisplayOrder ==
  /\ calc.stage \in {"sorted", "again"}
       => /\ ExactlyThose(calc.pinned, conversations, IsPinned)
          /\ ExactlyThose(calc.unpinned, conversations, IsUnpinned)
          /\ \A i, j \in DOMAIN calc.pinned :
               i < j => PinnedInOrder(calc.pinned[i], calc.pinned[j])
          /\ \A i, j \in DOMAIN calc.unpinned :
               i < j => UnpinnedInOrder(calc.unpinned[i], calc.unpinned[j])
  /\ calc.stage = "again"
       => /\ calc.pinnedAgain = calc.pinned
          /\ calc.unpinnedAgain = calc.unpinned

\* C17: conversations with pinnedOrder 3, 1, 2 and one pinned conversation
\* without an order were sorted, twice: 1, 2, 3, then the one without
C17_Witness ==
  /\ calc.stage = "again"
  /\ [i \in DOMAIN conversations |-> conversations[i].pinnedOrder]
       = <<Some(3), Some(1), Absent, Some(2)>>
  /\ [i \in DOMAIN calc.pinnedAgain |-> calc.pinnedAgain[i].id]
       = <<"c2", "c4", "c1", "c3">>

\* the values of the lines of a block that start with the field
FieldValues(block, field) ==
  LET RECURSIVE Pick(_)
      Pick(i) == IF i > Len(block) THEN <<>>
                 ELSE IF block[i][1] = field
                   THEN <<trim(Tail(block[i]))>> \o Pick(i + 1)
                   ELSE Pick(i + 1)
  IN Pick(1)

\* the event the claim states for a block
EventOfBlock(block) ==
  LET names == FieldValues(block, "event:")
      dataString == JoinLines(FieldValues(block, "data:"))
  IN [event |-> IF names = <<>> THEN <<"message">> ELSE names[Len(names)],
      data |-> IF JSONparse(dataString).parsed
                 THEN [json |-> JSONparse(dataString).value]
                 ELSE [text |-> dataString]]

\* C18: when the whole body has been read, the events yielded are those of
\* its blocks that a blank line terminates, one each, in block order: the
\* name of the block's event: line ("message" without one), and the
\* newline-join of its data: lines, parsed as JSON when it parses and as text
\* otherwise.
C18_OneEventPerBlock ==
  calc.read = Len(calc.content)
    => calc.events = [i \in DOMAIN calc.blocks |-> EventOfBlock(calc.blocks[i])]

\* C18: a body of two blocks was read: an unnamed event with the JSON
\* payload of two data: lines, then a named one with a text payload
C18_Witness ==
  /\ calc.read = Len(calc.content)
  /\ calc.events =
       << [event |-> <<"message">>, data |-> [json |-> [object |-> "empty"]]],
          [event |-> <<"d">>, data |-> [text |-> <<"x">>]] >>

\* the blocks of the body whose blank line is among the first n characters
BlocksWithin(n) ==
  LET RECURSIVE Count(_, _)
      Count(i, at) ==
        IF i > Len(calc.blocks) THEN i - 1
        ELSE IF at + Len(BlockText(calc.blocks[i])) > n THEN i - 1
        ELSE Count(i + 1, at + Len(BlockText(calc.blocks[i])))
  IN Count(1, 0)

\* C19: however the transport splits the body into reads, after each read
\* the events yielded and the buffer are those of one read of everything
\* delivered so far; a block is emitted, once, when its blank line has been
\* delivered and not before.
C19_EventsIndependentOfReads ==
  LET whole == Decode(<<>>, SubSeq(calc.content, 1, calc.read))
  IN /\ calc.events = whole.events
     /\ calc.buffer = whole.buffer
     /\ Len(calc.events) = BlocksWithin(calc.read)

\* C19: the first block was emitted; the line of the second has been
\* delivered, its blank line not yet, and the buffer holds it
C19_Witness ==
  /\ Len(calc.blocks) = 2
  /\ calc.read < Len(calc.content)
  /\ Len(calc.events) = 1
  /\ calc.buffer = <<"data:", "1", Newline>>

\* C20: with the streaming flag disabled no send has a stream: none holds a
\* controller, none is in the event loop and no event is delivered.  A send
\* starts by appending the optimistic user message and opening the session
\* entry; its non-streaming request either stores the exchange on the
\* backend and is followed by the reload, or fails, shows the notice and
\* removes the session entry; the reload ends the send and removes the
\* session entry, and shows the notice unless the list is now the backend's.
C20_DisabledFlagNeverStreams ==
  [][~streamingEnabled
       => /\ abortControllers' = EmptyMap /\ delivered' = 0
          /\ \A t \in DOMAIN sends' :
               sends'[t].pc \in {"post", "postReload", "done"}
          /\ \A t \in (DOMAIN sends') \ (DOMAIN sends) :
               /\ sends'[t].pc = "post"
               /\ \E c \in AllConvIds :
                    /\ c = sends'[t].conv
                    /\ Last(MessagesOf(c)')
                         = optimisticUserMessage(sends'[t].text)
               /\ Has(streamingByConversation', sends'[t].conv)
          /\ \A t \in DOMAIN sends :
               Post(t)
                 => IF sends'[t].pc = "postReload"
                      THEN /\ Len(server'[sends[t].conv])
                                = Len(server[sends[t].conv]) + 2
                           /\ SameSession(sends[t].conv)
                      ELSE /\ sends'[t].pc = "done"
                           /\ server' = server
                           /\ toastMessage' = "Unable to send message."
                           /\ ~Has(streamingByConversation', sends[t].conv)
          /\ \A t \in DOMAIN sends :
               PostReload(t)
                 => /\ sends'[t].pc = "done"
                    /\ ~Has(streamingByConversation', sends[t].conv)
                    /\ \/ toastMessage' = "Unable to send message."
                       \/ MessagesOf(sends[t].conv)'
                            = normalizeMessages(server[sends[t].conv])]_vars

\* C20: with the flag disabled a send has ended after its reload: the list
\* is the backend's exchange and the session entry is gone
C20_Witness ==
  /\ ~streamingEnabled
  /\ \E t \in DOMAIN sends :
       /\ sends[t].pc = "done"
       /\ ~Has(streamingByConversation, sends[t].conv)
       /\ Len(MessagesOf(sends[t].conv)) = 2
       /\ MessagesOf(sends[t].conv) = normalizeMessages(server[sends[t].conv])

\* C21: a step in which a message.status event arrives leaves accumulated
\* content that is not empty as it is; otherwise, when the event is handled
\* (no stop was requested), the session entry of the conversation has empty
\* content after it.
C21_StatusKeepsProgress ==
  [][\A t \in DOMAIN sends :
       StreamStatus(t)
         => IF /\ Has(streamingByConversation, sends[t].conv)
               /\ SessionContent(sends[t].conv) # <<>>
              THEN SameSession(sends[t].conv)
              ELSE ~AbortFlag(sends[t].conv)
                     => /\ Has(streamingByConversation', sends[t].conv)
                        /\ streamingByConversation'[sends[t].conv].content
                             = <<>>]_vars

\* C21: one send has handled a delta and a status event, and the session
\* holds the content of the delta
C21_Witness ==
  /\ Len(sends) = 1
  /\ sends[1].pc = "streaming"
  /\ delivered = 2
  /\ sends[1].got = <<"x">>
  /\ Has(streamingByConversation, sends[1].conv)
  /\ SessionContent(sends[1].conv) = <<"x">>

\* C22: no call of handleSendMessage ends with a rejected promise: a
\* failure of a backend call is caught inside the handler.
C22_NoFailureEscapesTheHandler ==
  \A t \in DOMAIN sends : sends[t].pc # "rejected"

\* the summary fields of a conversation record
SummaryOf(record) ==
  [title |-> record.title, isPinned |-> record.isPinned,
   pinnedAt |-> record.pinnedAt, pinnedOrder |-> record.pinnedOrder,
   createdAt |-> record.createdAt, lastUpdatedAt |-> record.lastUpdatedAt]

\* the PATCH request r was answered with the updated summary
PatchSucceeded(r) ==
  \/ RenameAccepted(r)
  \/ TogglePinAnswered(r) /\ toastMessage' = NoToast

Blank(text) == \A i \in DOMAIN text : text[i] = " "

\* content is text without the blanks at its ends
IsTrimmed(content, text) ==
  /\ content # <<>>
  /\ content[1] # " " /\ content[Len(content)] # " "
  /\ \E a, b \in 0..Len(text) :
       /\ a + b <= Len(text)
       /\ content = SubSeq(text, a + 1, Len(text) - b)
       /\ Blank(SubSeq(text, 1, a))
       /\ Blank(SubSeq(text, Len(text) - b + 1, Len(text)))

\* C24: a step in which handleSendMessage acts on a text appends exactly one
\* message to the active conversation, a user message with the placeholder
\* id and the trimmed text as content, and sets the conversation's session
\* entry to empty content, and the backend has recorded nothing in that
\* step; with a blank text or without an active conversation
\* handleSendMessage does not act.
C24_SendInsertsOneOptimisticMessage ==
  [][\A value \in UserTexts :
       /\ (Blank(value) \/ activeConversation = Absent)
            => ~handleSendMessage(value)
       /\ handleSendMessage(value)
            => LET t == Len(sends')
                   before == MessagesOf(activeId)
                   after == MessagesOf(activeId)'
               IN /\ Len(sends') = Len(sends) + 1
                  /\ sends'[t].conv = activeId
                  /\ Len(after) = Len(before) + 1
                  /\ SubSeq(after, 1, Len(before)) = before
                  /\ Last(after).id = TmpId /\ Last(after).role = "user"
                  /\ IsTrimmed(Last(after).content, value)
                  /\ Has(streamingByConversation', activeId)
                  /\ streamingByConversation'[activeId].content = <<>>
                  /\ server' = server /\ sends'[t].recorded = 0
                  /\ \A c \in AllConvIds \ {activeId} :
                       RecordOf(c)' = RecordOf(c) /\ SameSession(c)]_vars

\* C24: a text was sent: the conversation ends with the optimistic
\* user message "q", its session is open and empty, the backend has nothing
C24_Witness ==
  /\ Len(sends) = 1
  /\ sends[1].recorded = 0
  /\ sends[1].pc \in {"streaming", "post"}
  /\ MessagesOf(sends[1].conv) = <<optimisticUserMessage(<<"q">>)>>
  /\ Has(streamingByConversation, sends[1].conv)
  /\ SessionContent(sends[1].conv) = <<>>
  /\ server[sends[1].conv] = <<>>

\* the catch block of a rename or of a pin toggle runs for request r
PatchFailed(r) ==
  RenameRejected(r) \/ (TogglePinAnswered(r) /\ toastMessage' # NoToast)

\* C25: the step that rolls back a failed rename or pin toggle leaves the
\* messages of the conversation as the store held them just before the step,
\* so that messages a stream or a stop appended while the request was in
\* flight are kept.
C25_RollbackKeepsMessages ==
  [][\A r \in DOMAIN requests :
       (PatchFailed(r) /\ HasConversation(requests[r].id))
         => FindConversation(requests[r].id)'.messages
              = FindConversation(requests[r].id).messages]_vars

\* record with isPinned and pinnedOrder of the record pinned
WithPinOf(record, pinned) ==
  [record EXCEPT !.isPinned = pinned.isPinned,
                 !.pinnedOrder = pinned.pinnedOrder]

\* C26: the step that handles a rejected reorder keeps the conversations the
\* store holds, in their order; each one that was there before the reorder
\* gets the isPinned and pinnedOrder it had then and keeps every other field
\* (messages, title, stamps) as the store held it just before the step.
C26_RejectedReorderRestoresPinsOnly ==
  [][\A r \in DOMAIN requests :
       ReorderRejected(r)
         => LET before == requests[r].conversations
            IN /\ Len(conversations') = Len(conversations)
               /\ \A i \in DOMAIN conversations :
                    LET at == ConvIndex(before, conversations[i].id)
                    IN conversations'[i] =
                         IF at = {} THEN conversations[i]
                         ELSE WithPinOf(conversations[i],
                                        before[CHOOSE j \in at : TRUE])]_vars

\* C27: when only renames and pin toggles were requested and every one of
\* them has been answered, confirmed or rejected, each conversation of the
\* store has the title and the isPinned the backend holds for it.
C27_SettledEditsMatchBackend ==
  (\A r \in DOMAIN requests :
     requests[r].kind \in {"rename", "pin"} /\ requests[r].pc = "done")
    => \A i \in DOMAIN conversations :
         BackendHas(conversations[i].id)
           => /\ conversations[i].title
                   = BackendRecord(conversations[i].id).title
              /\ conversations[i].isPinned
                   = BackendRecord(conversations[i].id).isPinned

\* a handleDeleteConversation has not returned yet: its DELETE, or the POST
\* and the load of the handleNewChat it went on to call, is pending
DeleteOrNewChatInFlight ==
  \E r \in DOMAIN requests :
    requests[r].kind = "delete" /\ requests[r].pc # "done"

\* C28: whenever the store holds a conversation and no delete and no
\* new-chat request is in flight, the active id is the id of a conversation
\* of the store.
C28_ActiveIdIsInTheStore ==
  (conversations # <<>> /\ ~DeleteOrNewChatInFlight)
    => HasConversation(activeId)

\* C29: the fallback non-streaming send of a send is never issued when the
\* backend has already recorded the user message of that send, so that the
\* backend records the text of one send at most once.
C29_NoFallbackAfterRecordedUserMessage ==
  \A t \in DOMAIN sends : At(t, "fallback") => sends[t].recorded = 0

\* the mount effect's load and every retry have finished
LoadFinished ==
  /\ requests # <<>>
  /\ \A r \in DOMAIN requests : requests[r].pc = "done"

\* C30: once the initial load or a retry has finished there is an active
\* conversation or initialLoadFailed is true.
C30_LoadEndsActiveOrFailed ==
  LoadFinished => (activeConversation # Absent \/ initialLoadFailed)

====
